---- MODULE Spec2Model ----
(***************************************************************************)
(* Treasure Hunt framework: the iteration engine THBuilder::THImpl and its *)
(* asynchronous tree messaging (startup barrier, child/parent exchange,    *)
(* residual communication, FINALIZE handshake) as a state machine.         *)
(*                                                                         *)
(* One process per tree node.  A node is single threaded; its position in  *)
(* the constructor and in run() is pc[n].  The transport (MPI) is a set of *)
(* FIFO channels per (peer, tag); a non-blocking send is "pending" until   *)
(* the transport has taken its buffer, which happens at the latest when    *)
(* the matching receive completes.  A solution is abstracted to its        *)
(* fitness (smaller is better); a (positions, fitness, status) triple sent *)
(* to the parent is one message.                                           *)
(***************************************************************************)
EXTENDS Integers, Sequences, FiniteSets, TLC

\* ---------------------------------------------------------------- bounds
MaxFit == 1
MaxIterations == 2
PopulationSize == 2

\* ------------------------------------------------------------- constants
\* enum{ MSG_STARTUP, MSG_CHILD2PARENT, MSG_PARENT2CHILD, MSG_FINALIZE }
MSG_FINALIZE == 3
KUnit == 12
IPMaxTries == 3

\* Sweeps without improvement after which next() gives up
\* (#define MAX_NO_IMPROVE 5).
MAX_NO_IMPROVE == 5

\* Bounds of the optimizer runs: the budget M of CSMOn, the population size
\* p, the number of dimensions n, the turns R leaves r above it, and the
\* budgets of a refinement, counted in halves of a hundred.
MaxM == 13
MaxP == 2
MaxN == 2
MaxR == 1
MaxHalfHundreds == 6

\* Bounds of the best-list: its size and the positions of a solution.
MaxL == 3
MaxX == 1

\* Bounds of the partitioner: the nodes of a tree, the groups nGroups, the
\* segments K (the dimensions of a search space are bounded by MaxN).
MaxTreeNodes == 4
MaxGroups == 2
MaxK == 2
MaxAlgorithms == 2
MaxCalls == 3

\* Fitness values a cost evaluation can return, and the value of
\* setWorstFitness (DBL_MAX in the reference fitness policy).
Fitnesses == 0..MaxFit
WorstFitness == MaxFit + 1

\* The tree topologies explored: TreeShapes[k][n] is the parent of node n,
\* 0 for the root.  Nodes are numbered from 1; children are ordered by id.
TreeShapes == { <<0>>, <<0, 1>>, <<0, 1, 1>>, <<0, 1, 2>> }

VARIABLES
  parentOf,               \* the locked THTree
  pc,                     \* position of each node in THImpl() / run()
  t,                      \* iteration number
  generalBest,            \* fitness of generalBest
  evaluated,              \* the node has called the cost function
  hasChildrenImproved,
  iChild,                 \* the loop index i over children (1-based)
  popSeq,
  hasReadValue,
  lastReport,             \* how the last child report was brought in
  nInactiveChild,
  commStatus,             \* the local commStatus, send buffer of the status
  signal,                 \* the local signal of the FINALIZE wait
  \* ---- per non-root node c: the link between c and its parent
  childrenStatuses,       \* parent's childrenStatuses[i] for child c
  reqReadHhFromChildren,  \* parent's read request for child c
  commReadHhFromChildren, \* parent's receive buffers for child c (triple)
  Hh,                     \* parent's copy of the last read triple of c
  reqSendHbToParent,      \* c's send request toward its parent
  chanChild2Parent,       \* MSG_CHILD2PARENT triples sent by c, unmatched
  pendingSendUp,          \* sends of c to its parent not yet completed
  sendIdx,                \* number of triples c has sent (send index)
  nFinalSent,             \* number of triples with status -2 sent by c
  nResidualSent,          \* number of triples with status -1 sent by c
  reqSendToChildren,      \* parent's send request toward c
  pendingSendDown,        \* sends of the parent to c not yet completed
  reqReadHHbFromParent,   \* c's read request for its parent
  chanStartup,            \* MSG_STARTUP signals of c in flight
  chanFinalizeDown,       \* MSG_FINALIZE signals parent -> c in flight
  chanFinalizeUp,         \* MSG_FINALIZE confirmations c -> parent in flight
  nFinalizeSent,          \* FINALIZE signals the parent has sent to c
  nConfirmSent,           \* confirmations c has sent to its parent
  reqReadFinalize,        \* c's read request for the FINALIZE signal
  \* ---- one optimizer under the convergence controller
  search,                 \* the fields of the Search object (optimizer)
  csmon,                  \* the fields and the position of CSMOn::run
  \* ---- the parts of the library looked at on their own
  group,                  \* the best-list of a node and what updates it
  selection,              \* one call of the best-list selection policy
  region,                 \* one call of the region partitioner
  thTree,                 \* the fields of a THTree object under construction
  builder,                \* the fields of a THBuilder object
  results,                \* the copies an engine hands to its caller
  access,                 \* one call of BestList::operator[] or set
  relocation,             \* the fields of a BetaRelocationStrategyPolicy
  population              \* the population of a node through its iterations

nodeVars == <<pc, t, generalBest, evaluated, hasChildrenImproved, iChild,
              popSeq, hasReadValue, lastReport, nInactiveChild, commStatus,
              signal>>
upVars == <<childrenStatuses, reqReadHhFromChildren, commReadHhFromChildren,
            Hh, reqSendHbToParent, chanChild2Parent,
            pendingSendUp, sendIdx, nFinalSent, nResidualSent>>
downVars == <<reqSendToChildren,
              pendingSendDown, reqReadHHbFromParent>>
signalVars == <<chanStartup, chanFinalizeDown, chanFinalizeUp, nFinalizeSent,
                nConfirmSent, reqReadFinalize>>
optVars == <<search, csmon>>
libVars ==
  <<group, selection, region, thTree, builder, results, access, relocation, population>>
thVars == <<parentOf, nodeVars, upVars, downVars, signalVars>>
vars == <<thVars, optVars, libVars>>

\* ------------------------------------------------------------- topology
Nodes == 1..Len(parentOf)
getCurrentSize == Len(parentOf)
children(n) == SelectSeq([k \in 1..Len(parentOf) |-> k],
                         LAMBDA c : parentOf[c] = n)
nChildren(n) == Len(children(n))
hasChildren(n) == nChildren(n) > 0
hasParent(n) == parentOf[n] # 0
isLeaf(n) == ~hasChildren(n)
isRoot(n) == ~hasParent(n)
NonRoot == {n \in Nodes : hasParent(n)}
Leaves == {n \in Nodes : isLeaf(n)}
rootNode == CHOOSE n \in Nodes : isRoot(n)

\* FitnessPolicy::firstIsBetter on fitness values (minimisation).
firstIsBetter(first, second) == first < second

Min(a, b) == IF a < b THEN a ELSE b

\* ------------------------------------------------------- initial state
\* State at entry of THImpl(): request handles are NULL (lines 1120-1121,
\* 1151-1152), the children statuses are zeroed (lines 1128-1129),
\* generalBest holds the worst fitness (line 1168).
NoTriple == [fit |-> WorstFitness, st |-> 0, idx |-> 0]

\* A Search object as its constructor leaves it (HillClimbing.h lines
\* 47-60, PSO.h): no population, no evaluation, not stuck; limit is the
\* argument M of the call of next() in progress.  fit holds the fitness of
\* each individual of the population handed over by setPopulation, pBest
\* the fitness of PSO's personal bests, gb the position of the best
\* individual (counted from 1 here, 0 before startup()).
NewSearch(kind, popSize, nDims, fits) ==
  [kind |-> kind, p |-> popSize, n |-> nDims, nEvals |-> 0, stuck |-> FALSE,
   found |-> FALSE, noImprove |-> 0, limit |-> 0,
   fit |-> fits, pBest |-> <<>>, gb |-> 0]

\* A CSMOn object as its constructor leaves it (CSMOn.h lines 157-163): M
\* is the budget and s is -1.  R is kept as R0, the number of turns of the
\* loop of run() after which r = max(r*r, R) is still above R; use tells
\* which caller drives the optimizer, CSMOn::run ("run") or the refinement
\* of a child's report ("refine").  gb is the recorded history (the y of
\* each point); nImproved counts the calls of next() after the first one
\* of a run that returned with an improvement of the best.
NewCsmon(use, budget, R0) ==
  [pc |-> "idle", use |-> use, M |-> budget, s |-> -1, sPrev |-> -1,
   want |-> 0, ret |-> "idle", pT |-> -1, pS |-> -1, pB |-> -1, R0 |-> R0,
   relax |-> R0, rAboveR |-> TRUE, gb |-> <<>>, nImproved |-> 0]

InitEngine(shapes) ==
  /\ parentOf \in shapes
  /\ pc = [n \in Nodes |-> "ctor"]
  /\ t = [n \in Nodes |-> 1]
  /\ generalBest = [n \in Nodes |-> WorstFitness]
  /\ evaluated = [n \in Nodes |-> FALSE]
  /\ hasChildrenImproved = [n \in Nodes |-> FALSE]
  /\ iChild = [n \in Nodes |-> 1]
  /\ popSeq = [n \in Nodes |-> 1]
  /\ hasReadValue = [n \in Nodes |-> FALSE]
  /\ lastReport = [n \in Nodes |-> "none"]
  /\ nInactiveChild = [n \in Nodes |-> 0]
  /\ commStatus = [n \in Nodes |-> 1]
  /\ signal = [n \in Nodes |-> 0]
  /\ childrenStatuses = [n \in Nodes |-> 0]
  /\ reqReadHhFromChildren = [n \in Nodes |-> "NULL"]
  /\ commReadHhFromChildren = [n \in Nodes |-> NoTriple]
  /\ Hh = [n \in Nodes |-> [fit |-> WorstFitness, idx |-> 0]]
  /\ reqSendHbToParent = [n \in Nodes |-> "NULL"]
  /\ chanChild2Parent = [n \in Nodes |-> <<>>]
  /\ pendingSendUp = [n \in Nodes |-> 0]
  /\ sendIdx = [n \in Nodes |-> 0]
  /\ nFinalSent = [n \in Nodes |-> 0]
  /\ nResidualSent = [n \in Nodes |-> 0]
  /\ reqSendToChildren = [n \in Nodes |-> "NULL"]
  /\ pendingSendDown = [n \in Nodes |-> 0]
  /\ reqReadHHbFromParent = [n \in Nodes |-> "NULL"]
  /\ chanStartup = [n \in Nodes |-> 0]
  /\ chanFinalizeDown = [n \in Nodes |-> 0]
  /\ chanFinalizeUp = [n \in Nodes |-> 0]
  /\ nFinalizeSent = [n \in Nodes |-> 0]
  /\ nConfirmSent = [n \in Nodes |-> 0]
  /\ reqReadFinalize = [n \in Nodes |-> "NULL"]

\* The engine with its tree; the optimizer of the engine's nodes is looked
\* at on its own, under CsmonSpec.
\* A solution of one dimension: its position and its fitness.
Solution(x, fit) == [x |-> x, fit |-> fit]

\* An absent solution (a NULL pointer), apart from every solution.
NULL == Solution(-1, -1)

\* A BestList as its constructor leaves it: listSize slots, all NULL.
NewBestList(listSize) == [i \in 1..listSize |-> NULL]

\* The best-list of a node before the constructor of THImpl runs, with the
\* configuration of the builder: the size of the best-list, whether the
\* node is the root, the bias, whether the node has children to read.
\* generalBest starts with the worst fitness.
NewGroup(listSize, root, bias, hasKids) ==
  [pc |-> "ctor", bestList |-> NewBestList(listSize), isRoot |-> root,
   bias |-> bias, hasKids |-> hasKids,
   iterationBest |-> NULL, generalBest |-> Solution(0, WorstFitness),
   selected |-> NULL, t |-> 1, popSeq |-> 1]

\* A call of the selection policy that has not been made: the best-list
\* handed over, the random position, what came back.
NewSelection(list) ==
  [pc |-> "call", bestList |-> list, pos |-> 0, selected |-> NULL,
   error |-> FALSE]

\* A call of GroupRegionSelectionPolicy::apply that has not been made: the
\* locked tree (tree[n] is the parent of node n, 0 for the root; children
\* in the order of addNode), the id of the node, the parameters of the
\* policy and the dimensions of the search space.
NewRegionCall(tree, ID, nGroups, K, dims) ==
  [pc |-> "call", tree |-> tree, ID |-> ID, nGroups |-> nGroups, K |-> K,
   dims |-> dims, status |-> "none", parts |-> <<>>]

\* The parts that a specification does not look at stay as constructed;
\* skip names the part the specification sets up itself.
\* The ids a node of the tree can be given.
TreeIDs == 0..(MaxTreeNodes - 1)

\* A THTree after its constructor: an arena of limitSize nodes, none in use.
\* Nodes are named by their slot in the arena, 0 is the NULL pointer.
NewTree(limitSize) ==
  [pc |-> "live", locked |-> FALSE, limitSize |-> limitSize, currSize |-> 0,
   LRoot |-> 1, root |-> 0, parent |-> <<>>, level |-> <<>>, id |-> <<>>,
   nodeMap |-> [i \in TreeIDs |-> 0], thrown |-> "none"]

\* A THBuilder after its constructor.
NewBuilder ==
  [thTree |-> "NULL", searchSpace |-> FALSE, fitnessPolicy |-> FALSE,
   cartGrid |-> FALSE, maxNumberEvaluations |-> 0, maxTimeSeconds |-> 0,
   maxIterations |-> 0, searchAlgorithms |-> <<>>, built |-> FALSE,
   th |-> FALSE,
   outcome |-> "none"]

\* An engine after its constructor, as far as the results it hands out
\* go.  Objects are named by numbers: 0 is the NULL pointer, 1 the
\* engine's generalBest, 2 its bestList; heap is the last object made.
NewResults ==
  [executed |-> FALSE, generalBestCopy |-> 0, bestListCopy |-> 0,
   heap |-> 2, returned |-> <<>>, deleted |-> {}]

\* A call of operator[] ("read") or set on a BestList.
NewAccess(list, op, idx, solution) ==
  [pc |-> "call", bestList |-> list, op |-> op, idx |-> idx,
   solution |-> solution, outcome |-> "none", value |-> NULL]

\* A BetaRelocationStrategyPolicy after its constructor; maxK is not
\* initialized and not read before getAttraction has set it.  prevGb and
\* currGb are the general best at the last two relocations, before is K
\* as the last relocation found it (-1 stands for none).
NewRelocation ==
  [diplacementType |-> "L", maxTries |-> 0, nTries |-> 0, K |-> -1,
   maxK |-> 0, prevBestFitness |-> 0, firstPass |-> TRUE,
   prevGb |-> -1, currGb |-> -1, before |-> -1, applied |-> FALSE]

\* The population of a node before the constructor of THImpl runs, with
\* the cost function of the caller's fitness policy (cost[x] is the cost at
\* position x), the bias of the builder and the size of the best-list.
\* member is the population, gb the position of the best individual in the
\* optimizer, handed the population as the last startup() found it,
\* compared the last solution that was compared with generalBest.
NewPopulation(cost, bias, listSize) ==
  [pc |-> "ctor", cost |-> cost, bias |-> bias, member |-> <<>>, gb |-> 0,
   nEvals |-> 0, iterationBest |-> NULL,
   generalBest |-> Solution(0, WorstFitness),
   bestList |-> NewBestList(listSize), handed |-> <<>>, compared |-> NULL,
   t |-> 1]

Idle(skip) ==
  /\ IF skip = "optimizer" THEN TRUE
     ELSE /\ search = NewSearch("HillClimbing", 1, 1, <<WorstFitness>>)
          /\ csmon = NewCsmon("run", 1, 0)
  /\ IF skip = "group" THEN TRUE
     ELSE group = NewGroup(1, TRUE, NULL, FALSE)
  /\ IF skip = "selection" THEN TRUE
     ELSE selection = NewSelection(NewBestList(1))
  /\ IF skip = "region" THEN TRUE
     ELSE region = NewRegionCall(<<0>>, 1, 1, 1, <<[start |-> 0, end |-> 0]>>)
  /\ IF skip = "tree" THEN TRUE
     ELSE thTree = NewTree(1)
  /\ IF skip = "builder" THEN TRUE
     ELSE builder = NewBuilder
  /\ IF skip = "results" THEN TRUE
     ELSE results = NewResults
  /\ IF skip = "access" THEN TRUE
     ELSE access = NewAccess(NewBestList(1), "read", 0, NULL)
  /\ IF skip = "relocation" THEN TRUE
     ELSE relocation = NewRelocation
  /\ IF skip = "population" THEN TRUE
     ELSE population = NewPopulation([x \in 0..MaxX |-> 0], NULL, 1)

Init ==
  /\ InitEngine(TreeShapes)
  /\ Idle("engine")

\* ------------------------------------------------- transport primitives
\* MPI_Testall on a send request: the flag is true when every part of the
\* send has completed.  The code sets commFlag = 2 instead of testing when
\* the handle is still NULL (never used).  `buffered` tells whether the
\* transport has taken the buffers of the pending send before the test
\* (a send may complete before it is matched).
TestallSend(req, pending, buffered) ==
  IF req = "NULL" THEN 2 ELSE IF pending = 0 \/ buffered THEN 1 ELSE 0

\* The guard of the upward / downward send of the iteration body
\* (lines 1308 and 1459); req is the handle after the test.
\* (faulty variant: send without regard to the previous send)
SendAlways(commFlag, req) == TRUE
SendAllowed(commFlag, req) ==
  commFlag = 2 \/ (req = "REQUEST_NULL" /\ commFlag # 0)

\* The guard of the sends of the residual phase (lines 1605, 1635, 1728,
\* 1750): if(commFlag).
\* (faulty variant: the residual phase never sends)
ResidualSendNever(commFlag) == FALSE
ResidualSendAllowed(commFlag) == commFlag # 0

\* Handle of a send request after a test with result commFlag.
AfterTest(req, commFlag) ==
  IF req # "NULL" /\ commFlag # 0 THEN "REQUEST_NULL" ELSE req

\* Sends still pending after a test with result commFlag.
PendingAfterTest(pending, commFlag) == IF commFlag # 0 THEN 0 ELSE pending

\* The status a node reports with its last package (line 1794) and from
\* the residual phase on (line 1598).
FinalStatus == -2
\* (faulty variant: the residual phase already reports the final status)
ResidualStatusAsFinal == FinalStatus
ResidualStatus == -1

\* What a package with status st adds to the count of final packages.
CountFinal(st) == IF st = FinalStatus THEN 1 ELSE 0
CountResidual(st) == IF st = ResidualStatus THEN 1 ELSE 0

\* A (positions, fitness, status) package with its send index.
Triple(fit, st, idx) == [fit |-> fit, st |-> st, idx |-> idx]

\* Overwriting commStatus while sends that read it are still pending: a
\* build may transfer the old or the new value.  The pending sends are the
\* last `pending` messages of the channel.
RewritePending(ch, pending, st) ==
  [k \in 1..Len(ch) |->
     IF k > Len(ch) - pending THEN [ch[k] EXCEPT !.st = st] ELSE ch[k]]

\* Completion of the matching receive completes the send: at most the
\* unmatched messages can still be pending.
AfterMatch(pending, unmatched) == Min(pending, unmatched)

\* --------------------------------------------- construction and barrier
\* The value sent as startup signal (line 1197).
StartupSignal == 1

\* THImpl() up to the startup signal of a leaf (lines 1168-1203):
\* SearchGroup::resetPopulation (lines 960-996) evaluates every individual
\* and generalBest becomes the best of them; then, in a tree of more than
\* one node, a leaf sends its startup signal and the constructor returns.
Ctor(n) ==
  /\ pc[n] = "ctor"
  /\ \E f \in Fitnesses :
       generalBest' = [generalBest EXCEPT
                         ![n] = IF firstIsBetter(f, @) THEN f ELSE @]
  /\ evaluated' = [evaluated EXCEPT ![n] = TRUE]
  /\ chanStartup' =
       [chanStartup EXCEPT
          ![n] = IF getCurrentSize > 1 /\ isLeaf(n) THEN @ + 1 ELSE @]
  /\ pc' = [pc EXCEPT ![n] = IF getCurrentSize > 1 /\ ~isLeaf(n)
                               THEN "barrier" ELSE "search"]
  /\ UNCHANGED <<parentOf, optVars, libVars, lastReport, t, hasChildrenImproved, iChild, popSeq,
                 hasReadValue, nInactiveChild, commStatus, signal, upVars,
                 downVars, chanFinalizeDown, chanFinalizeUp, nFinalizeSent,
                 nConfirmSent, reqReadFinalize>>

\* The blocking receives of the startup signals (lines 1206-1214) return
\* when the signal of every child has arrived.
\* (faulty variant: the signals of the children are not waited for)
StartupNotAwaited(n) == TRUE
StartupReceived(n) ==
  \A c \in Nodes : parentOf[c] = n => chanStartup[c] > 0

\* TH startup of an internal node (lines 1204-1221): blocking receive of the
\* signal of every child into childrenStatuses[i], then the signal to the
\* node's own parent.
Barrier(n) ==
  /\ pc[n] = "barrier"
  /\ StartupReceived(n)
  /\ childrenStatuses' =
       [c \in Nodes |-> IF parentOf[c] = n THEN StartupSignal
                                           ELSE childrenStatuses[c]]
  /\ chanStartup' =
       [c \in Nodes |-> IF parentOf[c] = n THEN chanStartup[c] - 1
                        ELSE IF c = n /\ hasParent(n) THEN chanStartup[c] + 1
                        ELSE chanStartup[c]]
  /\ pc' = [pc EXCEPT ![n] = "search"]
  /\ UNCHANGED <<parentOf, optVars, libVars, lastReport, t, generalBest, evaluated, hasChildrenImproved,
                 iChild, popSeq, hasReadValue, nInactiveChild, commStatus,
                 signal, reqReadHhFromChildren, commReadHhFromChildren, Hh,
                 reqSendHbToParent, chanChild2Parent,
                 pendingSendUp, sendIdx, nFinalSent, nResidualSent, downVars,
                 chanFinalizeDown, chanFinalizeUp, nFinalizeSent,
                 nConfirmSent, reqReadFinalize>>

\* ------------------------------------------------------- iteration body
\* Where the for loop over the children goes next (line 1335).
\* (faulty variant: the loop leaves out the last child)
ChildLoopLeavesLast(i, nCh, seq) == i < nCh /\ seq < PopulationSize
ChildLoopGoesOn(i, nCh, seq) == i <= nCh /\ seq < PopulationSize

\* runNextIteration (lines 1528-1530) for a budget of MaxIterations
\* iterations, the evaluation and wall-clock budgets being unlimited (0).
RunNextIteration(iter) == iter < MaxIterations

\* The end of the iteration body (lines 1474-1567): from the second
\* iteration on a node with a parent empties the parent's inbound channel
\* and leaves a read posted; then the budget decides between one more
\* iteration and the residual phase.
IterationEnd(n) ==
  /\ reqReadHHbFromParent' =
       [reqReadHHbFromParent EXCEPT
          ![n] = IF hasParent(n) /\ t[n] > 1 THEN "PENDING" ELSE @]
  /\ t' = [t EXCEPT ![n] = @ + 1]
  /\ pc' = [pc EXCEPT ![n] = IF RunNextIteration(t[n]) THEN "search"
                                                        ELSE "residual"]

\* The condition of the upward send (line 1295): the search of this
\* iteration has improved generalBest, or a child report has since the
\* previous upward-send step (hasChildrenImproved is reset at line 1330,
\* after the send, and set by the loop over the children that follows).
\* (faulty variant: improvements of the children are not sent on)
WantSendOwnOnly(n, improvedGeneralBest) ==
  hasParent(n) /\ improvedGeneralBest
WantSend(n, improvedGeneralBest) ==
  hasParent(n) /\ (improvedGeneralBest \/ hasChildrenImproved[n])

\* searchGroup->run() and the upward send of the iteration body
\* (lines 1289-1331); a node without children has nothing to read or send
\* downward and goes on to the end of the iteration.
Search(n) ==
  /\ pc[n] = "search"
  /\ \E f \in Fitnesses, buffered \in BOOLEAN :
       LET improvedGeneralBest == firstIsBetter(f, generalBest[n])
           gb == IF improvedGeneralBest THEN f ELSE generalBest[n]
           wantSend == WantSend(n, improvedGeneralBest)
           commFlag == TestallSend(reqSendHbToParent[n], pendingSendUp[n],
                                   buffered)
           req == AfterTest(reqSendHbToParent[n], commFlag)
           doSend == wantSend /\ SendAllowed(commFlag, req)
       IN /\ buffered => (wantSend /\ pendingSendUp[n] > 0)
          /\ generalBest' = [generalBest EXCEPT ![n] = gb]
          /\ reqSendHbToParent' =
               [reqSendHbToParent EXCEPT
                  ![n] = IF doSend THEN "ACTIVE"
                         ELSE IF wantSend THEN req ELSE @]
          /\ chanChild2Parent' =
               [chanChild2Parent EXCEPT
                  ![n] = IF doSend
                           THEN Append(@, Triple(gb, commStatus[n],
                                                 sendIdx[n] + 1))
                           ELSE @]
          /\ pendingSendUp' =
               [pendingSendUp EXCEPT
                  ![n] = IF doSend THEN PendingAfterTest(@, commFlag) + 1
                         ELSE IF wantSend THEN PendingAfterTest(@, commFlag)
                         ELSE @]
          /\ sendIdx' = [sendIdx EXCEPT ![n] = IF doSend THEN @ + 1 ELSE @]
          /\ nFinalSent' =
               [nFinalSent EXCEPT
                  ![n] = IF doSend THEN @ + CountFinal(commStatus[n]) ELSE @]
          /\ nResidualSent' =
               [nResidualSent EXCEPT
                  ![n] = IF doSend THEN @ + CountResidual(commStatus[n])
                                   ELSE @]
  /\ evaluated' = [evaluated EXCEPT ![n] = TRUE]
  /\ hasChildrenImproved' = [hasChildrenImproved EXCEPT ![n] = FALSE]
  /\ popSeq' = [popSeq EXCEPT ![n] = 1]
  /\ iChild' = [iChild EXCEPT ![n] = 1]
  /\ IF hasChildren(n)
       THEN /\ pc' = [pc EXCEPT
                        ![n] = IF ChildLoopGoesOn(1, nChildren(n), 1)
                                 THEN "childTest" ELSE "exchange"]
            /\ UNCHANGED <<t, reqReadHHbFromParent>>
       ELSE IterationEnd(n)
  /\ UNCHANGED <<parentOf, optVars, libVars, lastReport, hasReadValue, nInactiveChild, commStatus,
                 signal, childrenStatuses, reqReadHhFromChildren,
                 commReadHhFromChildren, Hh, reqSendToChildren,
                 pendingSendDown, signalVars>>

\* ------------------------------------------ reading a child (lines 1367-1401)
\* MPI_Testall on the read request of a child, after the NULL check of
\* lines 1345-1355: 2 when no read was ever posted, else whether the
\* transport has matched the posted read (`arrived`).
TestallRead(req, arrived) ==
  IF req = "NULL" THEN 2 ELSE IF arrived THEN 1 ELSE 0

\* Handle of a read request after the test.
AfterTestRead(req, arrived) ==
  IF req = "PENDING" /\ arrived THEN "REQUEST_NULL" ELSE req

\* Receive buffers and channel of child c after the test: a matched read
\* has taken the oldest triple of the channel.
BufAfterTest(c, arrived) ==
  IF arrived THEN Head(chanChild2Parent[c]) ELSE commReadHhFromChildren[c]
ChanAfterTest(c, arrived) ==
  IF arrived THEN Tail(chanChild2Parent[c]) ELSE chanChild2Parent[c]

\* The buffers are copied when the request has completed (lines 1369, 1677).
\* (faulty variants: copy whatever the buffers hold; keep the first triple)
CopyAlways(req, alreadyRead) == TRUE
CopyFirstOnly(req, alreadyRead) == req = "REQUEST_NULL" /\ ~alreadyRead
CopyCond(req, alreadyRead) == req = "REQUEST_NULL"

\* A new read is posted while the child is still active (lines 1380, 1688).
\* (faulty variant: a new read is posted whatever the status)
StillActiveAlways(status) == TRUE
StillActive(status) == status > -2

\* A child that counts as inactive (lines 1337, 1654, 1705).
\* (faulty variant: a child in its residual phase counts as inactive)
IsInactiveNegative(status) == status < 0
IsInactive(status) == status = FinalStatus

\* Children that receive the downward sends (lines 1445, 1621, 1743).
IsSendTarget(status) == ~(status < 0)

\* The local search over a child's report (lines 1418-1426): the best
\* individual of the local optimizer is never worse than its seed.
RefinedFitness(f) == {x \in 0..WorstFitness : ~firstIsBetter(f, x)}

\* One pass of the loop while(commFlag) for child c, entered with the
\* handle req0, the flag read0, the receive buffers buf0 and the channel
\* chan0: copy the completed triple, then post a new read and test it.
\* `deliver` tells whether the transport matches the new read before the
\* test.
CopiedHh(c, req0, read0, buf0) ==
  IF CopyCond(req0, read0) THEN [fit |-> buf0.fit, idx |-> buf0.idx]
                           ELSE Hh[c]
CopiedStatus(c, req0, read0, buf0) ==
  IF CopyCond(req0, read0) THEN buf0.st ELSE childrenStatuses[c]
CopiedFlag(req0, read0) == read0 \/ CopyCond(req0, read0)
ReadPassReq(req0, st1, deliver) ==
  IF StillActive(st1)
    THEN (IF deliver THEN "REQUEST_NULL" ELSE "PENDING")
    ELSE req0
ReadPassChan(chan0, st1, deliver) ==
  IF StillActive(st1) /\ deliver THEN Tail(chan0) ELSE chan0
ReadPassBuf(buf0, chan0, st1, deliver) ==
  IF StillActive(st1) /\ deliver THEN Head(chan0) ELSE buf0
ReadPassFlag(st1, deliver) == StillActive(st1) /\ deliver

\* The part of a pass that is common to the iteration body and to the
\* residual loop: the inbound link of child c.
ReadPassLink(c, req0, read0, buf0, chan0, deliver) ==
  LET st1 == CopiedStatus(c, req0, read0, buf0)
  IN /\ deliver => (StillActive(st1) /\ chan0 # <<>>)
     /\ Hh' = [Hh EXCEPT ![c] = CopiedHh(c, req0, read0, buf0)]
     /\ childrenStatuses' = [childrenStatuses EXCEPT ![c] = st1]
     /\ reqReadHhFromChildren' =
          [reqReadHhFromChildren EXCEPT
             ![c] = ReadPassReq(req0, st1, deliver)]
     /\ commReadHhFromChildren' =
          [commReadHhFromChildren EXCEPT
             ![c] = ReadPassBuf(buf0, chan0, st1, deliver)]

\* One pass of while(commFlag) in the iteration body and, when the loop
\* ends, the refinement of the report (lines 1367-1439).
BodyPass(n, c, req0, read0, buf0, chan0) ==
  \E deliver \in BOOLEAN :
    LET hh1 == CopiedHh(c, req0, read0, buf0)
        st1 == CopiedStatus(c, req0, read0, buf0)
        read1 == CopiedFlag(req0, read0)
    IN /\ ReadPassLink(c, req0, read0, buf0, chan0, deliver)
       /\ chanChild2Parent' =
            [chanChild2Parent EXCEPT
               ![c] = ReadPassChan(chan0, st1, deliver)]
       /\ pendingSendUp' =
            [pendingSendUp EXCEPT
               ![c] = AfterMatch(@, Len(ReadPassChan(chan0, st1, deliver)))]
       /\ hasReadValue' = [hasReadValue EXCEPT ![n] = read1]
       /\ IF ReadPassFlag(st1, deliver)
            THEN /\ pc' = [pc EXCEPT ![n] = "childLoop"]
                 /\ UNCHANGED <<iChild, popSeq, generalBest,
                                hasChildrenImproved, lastReport>>
            ELSE \E r \in RefinedFitness(hh1.fit) :
                   LET refines == st1 # 0 /\ read1
                       seq == IF refines THEN popSeq[n] + 1 ELSE popSeq[n]
                       better == refines /\ firstIsBetter(r, generalBest[n])
                   IN /\ (~refines) => r = hh1.fit
                      /\ generalBest' =
                           [generalBest EXCEPT ![n] = IF better THEN r ELSE @]
                      /\ hasChildrenImproved' =
                           [hasChildrenImproved EXCEPT ![n] = @ \/ better]
                      /\ popSeq' = [popSeq EXCEPT ![n] = seq]
                      /\ lastReport' =
                           [lastReport EXCEPT
                              ![n] = IF refines THEN "refined" ELSE @]
                      /\ iChild' = [iChild EXCEPT ![n] = @ + 1]
                      /\ pc' = [pc EXCEPT
                                  ![n] = IF ChildLoopGoesOn(iChild[n] + 1,
                                                            nChildren(n), seq)
                                           THEN "childTest" ELSE "exchange"]

\* The head of the for loop over the children in the iteration body, the
\* first test of the read request and the first pass of the read loop
\* (lines 1335-1366).
ChildTest(n) ==
  /\ pc[n] = "childTest"
  /\ \E arrived \in BOOLEAN :
     LET c == children(n)[iChild[n]]
         commFlag == TestallRead(reqReadHhFromChildren[c], arrived)
     IN /\ arrived => /\ ~IsInactive(childrenStatuses[c])
                        /\ reqReadHhFromChildren[c] = "PENDING"
                        /\ chanChild2Parent[c] # <<>>
        /\ IF IsInactive(childrenStatuses[c]) \/ commFlag = 0
          THEN /\ iChild' = [iChild EXCEPT ![n] = @ + 1]
               /\ pc' = [pc EXCEPT
                           ![n] = IF ChildLoopGoesOn(iChild[n] + 1,
                                                     nChildren(n), popSeq[n])
                                    THEN "childTest" ELSE "exchange"]
               /\ UNCHANGED <<hasReadValue, lastReport, popSeq, generalBest,
                              hasChildrenImproved, childrenStatuses,
                              reqReadHhFromChildren, commReadHhFromChildren,
                              Hh, chanChild2Parent, pendingSendUp>>
          ELSE BodyPass(n, c,
                        AfterTestRead(reqReadHhFromChildren[c], arrived),
                        FALSE, BufAfterTest(c, arrived),
                        ChanAfterTest(c, arrived))
  /\ UNCHANGED <<parentOf, optVars, libVars, t, evaluated, nInactiveChild, commStatus, signal,
                 reqSendHbToParent, sendIdx, nFinalSent, nResidualSent,
                 downVars, signalVars>>

\* The further passes of the read loop of the iteration body.
ChildLoop(n) ==
  /\ pc[n] = "childLoop"
  /\ LET c == children(n)[iChild[n]]
     IN BodyPass(n, c, reqReadHhFromChildren[c], hasReadValue[n],
                 commReadHhFromChildren[c], chanChild2Parent[c])
  /\ UNCHANGED <<parentOf, optVars, libVars, t, evaluated, nInactiveChild, commStatus, signal,
                 reqSendHbToParent, sendIdx, nFinalSent, nResidualSent,
                 downVars, signalVars>>

\* ------------------------------------------------------ downward sends
\* Non-blocking sends of a solution to the children in `targets`.
\* bodyGuard selects the guard of the iteration body (line 1459) or the one
\* of the residual phase; the sends of the children in `buffered` have
\* completed before the test (taken by the transport or matched by a read
\* of the child).
DownFlag(c, buffered) ==
  TestallSend(reqSendToChildren[c], pendingSendDown[c], c \in buffered)
DownDoSend(c, targets, bodyGuard, buffered) ==
  /\ c \in targets
  /\ IF bodyGuard
       THEN SendAllowed(DownFlag(c, buffered),
                        AfterTest(reqSendToChildren[c],
                                  DownFlag(c, buffered)))
       ELSE ResidualSendAllowed(DownFlag(c, buffered))
DownSends(targets, bodyGuard) ==
  \E buffered \in SUBSET {c \in targets : pendingSendDown[c] > 0} :
    /\ reqSendToChildren' =
         [c \in Nodes |->
            IF c \notin targets THEN reqSendToChildren[c]
            ELSE IF DownDoSend(c, targets, bodyGuard, buffered) THEN "ACTIVE"
            ELSE AfterTest(reqSendToChildren[c], DownFlag(c, buffered))]
    /\ pendingSendDown' =
         [c \in Nodes |->
            IF c \notin targets THEN pendingSendDown[c]
            ELSE IF DownDoSend(c, targets, bodyGuard, buffered)
              THEN PendingAfterTest(pendingSendDown[c],
                                    DownFlag(c, buffered)) + 1
            ELSE PendingAfterTest(pendingSendDown[c], DownFlag(c, buffered))]

ActiveChildren(n) ==
  {c \in Nodes : parentOf[c] = n /\ IsSendTarget(childrenStatuses[c])}

\* Selection from the best list and sends to the children (lines
\* 1441-1468), then the end of the iteration.
Exchange(n) ==
  /\ pc[n] = "exchange"
  /\ DownSends(ActiveChildren(n), TRUE)
  /\ IterationEnd(n)
  /\ UNCHANGED <<parentOf, optVars, libVars, lastReport, generalBest, evaluated, hasChildrenImproved,
                 iChild, popSeq, hasReadValue, nInactiveChild, commStatus,
                 signal, upVars, signalVars>>

\* ------------------------------------------------------- residual phase
\* Where a node goes when it has no (more) children to wait for.
AfterResidual(n) ==
  IF hasParent(n) THEN "lastSend"
  ELSE IF hasChildren(n) THEN "waitChildren" ELSE "finSend"

\* Entry of the residual phase (lines 1575-1645): discard the parent's
\* data, set commStatus to -1 and send generalBest to the parent if the
\* previous send has completed, then send generalBest to the children that
\* are still active.  commStatus is written before the previous send is
\* tested: a send that still reads it may transfer either value (takeNew).
Residual(n) ==
  /\ pc[n] = "residual"
  /\ DownSends(ActiveChildren(n), FALSE)
  /\ reqReadHHbFromParent' =
       [reqReadHHbFromParent EXCEPT
          ![n] = IF hasParent(n) THEN "PENDING" ELSE @]
  /\ commStatus' = [commStatus EXCEPT
                      ![n] = IF hasParent(n) THEN ResidualStatus ELSE @]
  /\ \E buffered \in BOOLEAN, takeNew \in BOOLEAN :
       LET commFlag == TestallSend(reqSendHbToParent[n], pendingSendUp[n],
                                   buffered)
           doSend == hasParent(n) /\ ResidualSendAllowed(commFlag)
           raced == IF takeNew
                      THEN RewritePending(chanChild2Parent[n],
                                          pendingSendUp[n], ResidualStatus)
                      ELSE chanChild2Parent[n]
       IN /\ buffered => (hasParent(n) /\ pendingSendUp[n] > 0)
          /\ takeNew => (hasParent(n) /\ pendingSendUp[n] > 0 /\ ~buffered
                         /\ raced # chanChild2Parent[n])
          /\ reqSendHbToParent' =
               [reqSendHbToParent EXCEPT ![n] = IF doSend THEN "ACTIVE" ELSE @]
          /\ chanChild2Parent' =
               [chanChild2Parent EXCEPT
                  ![n] = IF doSend
                           THEN Append(@, Triple(generalBest[n],
                                                 ResidualStatus,
                                                 sendIdx[n] + 1))
                           ELSE raced]
          /\ pendingSendUp' =
               [pendingSendUp EXCEPT
                  ![n] = IF doSend THEN 1
                         ELSE IF hasParent(n)
                           THEN PendingAfterTest(@, commFlag) ELSE @]
          /\ sendIdx' = [sendIdx EXCEPT ![n] = IF doSend THEN @ + 1 ELSE @]
          /\ nFinalSent' =
               [nFinalSent EXCEPT
                  ![n] = IF doSend THEN @ + CountFinal(ResidualStatus) ELSE @]
          /\ nResidualSent' =
               [nResidualSent EXCEPT
                  ![n] = IF doSend THEN @ + CountResidual(ResidualStatus)
                                   ELSE @]
  /\ iChild' = [iChild EXCEPT ![n] = 1]
  /\ nInactiveChild' = [nInactiveChild EXCEPT ![n] = 0]
  /\ pc' = [pc EXCEPT ![n] = IF hasChildren(n) THEN "resTest"
                                               ELSE AfterResidual(n)]
  /\ UNCHANGED <<parentOf, optVars, libVars, lastReport, t, generalBest, evaluated, hasChildrenImproved,
                 popSeq, hasReadValue, signal, childrenStatuses,
                 reqReadHhFromChildren, commReadHhFromChildren, Hh,
                 signalVars>>

\* A child's report is taken over when it is better than generalBest
\* (line 1713).
\* (faulty variant: reports of the residual phase are dropped)
ResidualAcceptNever(fit, gb) == FALSE
\* (faulty variant: every report of the residual phase is taken over)
ResidualAcceptAlways(fit, gb) == TRUE
ResidualAccept(fit, gb) == firstIsBetter(fit, gb)

\* The do-while of the residual loop goes on while some child is not
\* inactive (line 1764).
ResidualLoopAgain(inactive, nCh) == inactive < nCh

\* The end of one turn of the for loop of the residual phase.
ResAdvance(n, inactive) ==
  IF iChild[n] < nChildren(n)
    THEN /\ iChild' = [iChild EXCEPT ![n] = @ + 1]
         /\ nInactiveChild' = [nInactiveChild EXCEPT ![n] = inactive]
         /\ pc' = [pc EXCEPT ![n] = "resTest"]
    ELSE /\ iChild' = [iChild EXCEPT ![n] = 1]
         /\ nInactiveChild' = [nInactiveChild EXCEPT ![n] = 0]
         /\ pc' = [pc EXCEPT
                     ![n] = IF ResidualLoopAgain(inactive, nChildren(n))
                              THEN "resTest" ELSE AfterResidual(n)]

\* One pass of while(commFlag) in the residual loop and, when the loop
\* ends, the forwarding of a better report (lines 1675-1762).
ResPass(n, c, req0, read0, buf0, chan0) ==
  \E deliver \in BOOLEAN :
    LET hh1 == CopiedHh(c, req0, read0, buf0)
        st1 == CopiedStatus(c, req0, read0, buf0)
        read1 == CopiedFlag(req0, read0)
        chanUp == [chanChild2Parent EXCEPT
                     ![c] = ReadPassChan(chan0, st1, deliver)]
        pendUp == [pendingSendUp EXCEPT
                     ![c] = AfterMatch(@, Len(ReadPassChan(chan0, st1,
                                                           deliver)))]
    IN /\ ReadPassLink(c, req0, read0, buf0, chan0, deliver)
       /\ hasReadValue' = [hasReadValue EXCEPT ![n] = read1]
       /\ IF ReadPassFlag(st1, deliver)
            THEN /\ pc' = [pc EXCEPT ![n] = "resLoop"]
                 /\ chanChild2Parent' = chanUp
                 /\ pendingSendUp' = pendUp
                 /\ UNCHANGED <<iChild, nInactiveChild, generalBest,
                                lastReport, reqSendHbToParent, sendIdx, nFinalSent,
                                nResidualSent, reqSendToChildren,
                                pendingSendDown>>
            ELSE LET inactive == IF IsInactive(st1)
                                   THEN nInactiveChild[n] + 1
                                   ELSE nInactiveChild[n]
                     better == read1
                                 /\ ResidualAccept(hh1.fit, generalBest[n])
                     gb == IF better THEN hh1.fit ELSE generalBest[n]
                     others == IF better
                                 THEN {j \in ActiveChildren(n) : j # c}
                                 ELSE {}
                 IN /\ ResAdvance(n, inactive)
                    /\ generalBest' = [generalBest EXCEPT ![n] = gb]
                    /\ lastReport' =
                         [lastReport EXCEPT ![n] = IF read1 THEN "raw" ELSE @]
                    /\ DownSends(others, FALSE)
                    /\ \E buffered \in BOOLEAN :
                         LET commFlag ==
                               TestallSend(reqSendHbToParent[n],
                                           pendingSendUp[n], buffered)
                             doSend == better /\ hasParent(n)
                                         /\ ResidualSendAllowed(commFlag)
                         IN /\ buffered => (better /\ hasParent(n)
                                             /\ pendingSendUp[n] > 0)
                            /\ reqSendHbToParent' =
                                 [reqSendHbToParent EXCEPT
                                    ![n] = IF doSend THEN "ACTIVE" ELSE @]
                            /\ chanChild2Parent' =
                                 [chanUp EXCEPT
                                    ![n] = IF doSend
                                             THEN Append(@,
                                                    Triple(gb, commStatus[n],
                                                           sendIdx[n] + 1))
                                             ELSE @]
                            /\ pendingSendUp' =
                                 [pendUp EXCEPT
                                    ![n] = IF doSend THEN 1
                                           ELSE IF better /\ hasParent(n)
                                             THEN PendingAfterTest(@, commFlag)
                                           ELSE @]
                            /\ sendIdx' =
                                 [sendIdx EXCEPT
                                    ![n] = IF doSend THEN @ + 1 ELSE @]
                            /\ nFinalSent' =
                                 [nFinalSent EXCEPT
                                    ![n] = IF doSend
                                             THEN @ + CountFinal(commStatus[n])
                                             ELSE @]
                            /\ nResidualSent' =
                                 [nResidualSent EXCEPT
                                    ![n] = IF doSend
                                             THEN @ + CountResidual(
                                                        commStatus[n])
                                             ELSE @]

\* The head of the for loop of the residual phase, the first test of the
\* read request and the first pass of the read loop (lines 1650-1674).
ResTest(n) ==
  /\ pc[n] = "resTest"
  /\ \E arrived \in BOOLEAN :
     LET c == children(n)[iChild[n]]
         commFlag == TestallRead(reqReadHhFromChildren[c], arrived)
     IN /\ arrived => /\ ~IsInactive(childrenStatuses[c])
                        /\ reqReadHhFromChildren[c] = "PENDING"
                        /\ chanChild2Parent[c] # <<>>
        /\ IF IsInactive(childrenStatuses[c]) \/ commFlag = 0
          THEN /\ ResAdvance(n, IF IsInactive(childrenStatuses[c])
                                  THEN nInactiveChild[n] + 1
                                  ELSE nInactiveChild[n])
               /\ hasReadValue' =
                    [hasReadValue EXCEPT
                       ![n] = IF IsInactive(childrenStatuses[c])
                                THEN @ ELSE FALSE]
               /\ UNCHANGED <<generalBest, lastReport, upVars,
                              reqSendToChildren, pendingSendDown>>
          ELSE ResPass(n, c,
                       AfterTestRead(reqReadHhFromChildren[c], arrived),
                       FALSE, BufAfterTest(c, arrived),
                       ChanAfterTest(c, arrived))
  /\ UNCHANGED <<parentOf, optVars, libVars, t, evaluated, hasChildrenImproved, popSeq,
                 commStatus, signal, reqReadHHbFromParent,
                 signalVars>>

\* The further passes of the read loop of the residual phase.
ResLoop(n) ==
  /\ pc[n] = "resLoop"
  /\ LET c == children(n)[iChild[n]]
     IN ResPass(n, c, reqReadHhFromChildren[c], hasReadValue[n],
                commReadHhFromChildren[c], chanChild2Parent[c])
  /\ UNCHANGED <<parentOf, optVars, libVars, t, evaluated, hasChildrenImproved, popSeq,
                 commStatus, signal, reqReadHHbFromParent,
                 signalVars>>

\* ------------------------------------------------- last send and waits
\* The fitness of the last package to the parent (lines 1790-1791).
FinalPayload(n) == generalBest[n]

\* Last package to the parent (lines 1773-1800): poll until the previous
\* send has completed, then send generalBest with status -2.  The send is
\* never waited for.
LastSend(n) ==
  /\ pc[n] = "lastSend"
  /\ commStatus' = [commStatus EXCEPT ![n] = FinalStatus]
  /\ reqSendHbToParent' = [reqSendHbToParent EXCEPT ![n] = "ACTIVE"]
  /\ chanChild2Parent' =
       [chanChild2Parent EXCEPT
          ![n] = Append(@, Triple(FinalPayload(n), FinalStatus,
                                  sendIdx[n] + 1))]
  /\ pendingSendUp' = [pendingSendUp EXCEPT ![n] = 1]
  /\ sendIdx' = [sendIdx EXCEPT ![n] = @ + 1]
  /\ nFinalSent' = [nFinalSent EXCEPT ![n] = @ + CountFinal(FinalStatus)]
  /\ nResidualSent' =
       [nResidualSent EXCEPT ![n] = @ + CountResidual(FinalStatus)]
  /\ pc' = [pc EXCEPT ![n] = IF hasChildren(n) THEN "waitChildren"
                                               ELSE "finWait"]
  /\ UNCHANGED <<parentOf, optVars, libVars, lastReport, t, generalBest, evaluated, hasChildrenImproved,
                 iChild, popSeq, hasReadValue, nInactiveChild, signal,
                 childrenStatuses, reqReadHhFromChildren,
                 commReadHhFromChildren, Hh, downVars, signalVars>>

\* The children whose send handle was never used: MPI_Waitall on them gets
\* an invalid request.
NeverSentTo(n) ==
  {c \in Nodes : parentOf[c] = n /\ reqSendToChildren[c] = "NULL"}

\* MPI_Waitall on the sends to every child (lines 1803-1811).  On a handle
\* that is still NULL the call fails: the default error handler aborts the
\* job, a build without error handling goes on.
WaitChildren(n) ==
  /\ pc[n] = "waitChildren"
  /\ \E fatal \in BOOLEAN :
       /\ fatal => NeverSentTo(n) # {}
       /\ pc' = [pc EXCEPT ![n] = IF fatal THEN "aborted"
                                  ELSE IF hasParent(n) THEN "finWait"
                                  ELSE "finSend"]
       /\ reqSendToChildren' =
            [c \in Nodes |->
               IF parentOf[c] = n /\ reqSendToChildren[c] # "NULL" /\ ~fatal
                 THEN "REQUEST_NULL" ELSE reqSendToChildren[c]]
       /\ pendingSendDown' =
            [c \in Nodes |-> IF parentOf[c] = n /\ ~fatal
                               THEN 0 ELSE pendingSendDown[c]]
  /\ UNCHANGED <<parentOf, optVars, libVars, lastReport, t, generalBest, evaluated,
                 hasChildrenImproved, iChild, popSeq, hasReadValue,
                 nInactiveChild, commStatus, signal, upVars,
                 reqReadHHbFromParent, signalVars>>

\* ---------------------------------------------------- FINALIZE handshake
\* The loop while(!signal) goes on until the signal is non-zero.
\* (faulty variant: the wait does not look at the signal)
FinalizeReceivedAlways(sig) == TRUE
FinalizeReceived(sig) == sig # 0

\* One turn of the wait for the parent's FINALIZE (lines 1818-1847):
\* discard what the parent has sent, then post one more receive of the
\* signal into reqReadFinalize; the receive is never tested, and the handle
\* of a receive posted by an earlier turn is overwritten.
FinWait(n) ==
  /\ pc[n] = "finWait"
  /\ ~FinalizeReceived(signal[n])
  /\ reqReadFinalize' = [reqReadFinalize EXCEPT ![n] = "PENDING"]
  /\ UNCHANGED <<parentOf, optVars, libVars, nodeVars, upVars, downVars, chanStartup,
                 chanFinalizeDown, chanFinalizeUp, nFinalizeSent,
                 nConfirmSent>>

\* FINALIZE to the children (lines 1849-1858) and, on a leaf of a tree of
\* more than one node, the confirmation to the parent (lines 1860-1867).
FinSend(n) ==
  /\ \/ pc[n] = "finSend"
     \/ pc[n] = "finWait" /\ FinalizeReceived(signal[n])
  /\ signal' = [signal EXCEPT ![n] = MSG_FINALIZE]
  /\ chanFinalizeDown' =
       [c \in Nodes |-> IF parentOf[c] = n THEN chanFinalizeDown[c] + 1
                                           ELSE chanFinalizeDown[c]]
  /\ nFinalizeSent' =
       [c \in Nodes |-> IF parentOf[c] = n THEN nFinalizeSent[c] + 1
                                           ELSE nFinalizeSent[c]]
  /\ LET confirms == getCurrentSize > 1 /\ isLeaf(n)
     IN /\ chanFinalizeUp' =
             [chanFinalizeUp EXCEPT ![n] = IF confirms THEN @ + 1 ELSE @]
        /\ nConfirmSent' =
             [nConfirmSent EXCEPT ![n] = IF confirms THEN @ + 1 ELSE @]
  /\ pc' = [pc EXCEPT ![n] = IF isLeaf(n) THEN "done" ELSE "finConfirm"]
  /\ UNCHANGED <<parentOf, optVars, libVars, lastReport, t, generalBest, evaluated, hasChildrenImproved,
                 iChild, popSeq, hasReadValue, nInactiveChild, commStatus,
                 upVars, downVars, chanStartup, reqReadFinalize>>

\* An internal node receives the confirmation of every child, then
\* confirms to its own parent (lines 1868-1886); run() returns.
FinConfirm(n) ==
  /\ pc[n] = "finConfirm"
  /\ \A c \in Nodes : parentOf[c] = n => chanFinalizeUp[c] > 0
  /\ chanFinalizeUp' =
       [c \in Nodes |-> IF parentOf[c] = n THEN chanFinalizeUp[c] - 1
                        ELSE IF c = n /\ hasParent(n)
                          THEN chanFinalizeUp[c] + 1
                        ELSE chanFinalizeUp[c]]
  /\ nConfirmSent' =
       [nConfirmSent EXCEPT ![n] = IF hasParent(n) THEN @ + 1 ELSE @]
  /\ pc' = [pc EXCEPT ![n] = "done"]
  /\ UNCHANGED <<parentOf, optVars, libVars, lastReport, t, generalBest, evaluated, hasChildrenImproved,
                 iChild, popSeq, hasReadValue, nInactiveChild, commStatus,
                 signal, upVars, downVars, chanStartup, chanFinalizeDown,
                 nFinalizeSent, reqReadFinalize>>

\* ------------------------------------------------------------ transport
\* The transport matches the parent's FINALIZE with the oldest receive
\* that c has posted and writes the signal.  When the wait has made more
\* than one turn before, the matched receive is an overwritten one and the
\* receive of reqReadFinalize stays posted (`leaked`).
DeliverFinalize(c) ==
  /\ reqReadFinalize[c] = "PENDING"
  /\ chanFinalizeDown[c] > 0
  /\ signal' = [signal EXCEPT ![c] = MSG_FINALIZE]
  /\ chanFinalizeDown' = [chanFinalizeDown EXCEPT ![c] = @ - 1]
  /\ \E leaked \in BOOLEAN :
       reqReadFinalize' =
         [reqReadFinalize EXCEPT ![c] = IF leaked THEN "PENDING"
                                                  ELSE "COMPLETE"]
  /\ UNCHANGED <<parentOf, optVars, libVars, lastReport, pc, t, generalBest, evaluated,
                 hasChildrenImproved, iChild, popSeq, hasReadValue,
                 nInactiveChild, commStatus, upVars, downVars, chanStartup,
                 chanFinalizeUp, nFinalizeSent, nConfirmSent>>

\* ------------------------------------------------------- specification
NodeStep(n) ==
  \/ Ctor(n) \/ Barrier(n) \/ Search(n) \/ ChildTest(n) \/ ChildLoop(n)
  \/ Exchange(n) \/ Residual(n) \/ ResTest(n) \/ ResLoop(n) \/ LastSend(n)
  \/ WaitChildren(n) \/ FinWait(n) \/ FinSend(n) \/ FinConfirm(n)

Next ==
  \/ \E n \in Nodes : Ctor(n)
  \/ \E n \in Nodes : Barrier(n)
  \/ \E n \in Nodes : Search(n)
  \/ \E n \in Nodes : ChildTest(n)
  \/ \E n \in Nodes : ChildLoop(n)
  \/ \E n \in Nodes : Exchange(n)
  \/ \E n \in Nodes : Residual(n)
  \/ \E n \in Nodes : ResTest(n)
  \/ \E n \in Nodes : ResLoop(n)
  \/ \E n \in Nodes : LastSend(n)
  \/ \E n \in Nodes : WaitChildren(n)
  \/ \E n \in Nodes : FinWait(n)
  \/ \E n \in Nodes : FinSend(n)
  \/ \E n \in Nodes : FinConfirm(n)
  \/ \E c \in Nodes : DeliverFinalize(c)

Spec == Init /\ [][Next]_vars

\* A read of node n takes a triple out of the channel of one of its
\* children.
Arrive(n) ==
  /\ ChildTest(n) \/ ChildLoop(n) \/ ResTest(n) \/ ResLoop(n)
  /\ \E c \in Nodes : Len(chanChild2Parent'[c]) < Len(chanChild2Parent[c])

\* Every node is a process of its own and keeps running; the transport
\* delivers: a triple that stays in a channel whose reader keeps polling is
\* matched in the end, and so is a FINALIZE signal with a posted receive.
NodeIds == {1, 2, 3}
FairSpec ==
  /\ Spec
  /\ \A n \in NodeIds : WF_vars(n \in Nodes /\ NodeStep(n))
  /\ \A n \in NodeIds : SF_vars(n \in Nodes /\ Arrive(n))
  /\ \A n \in NodeIds : WF_vars(n \in Nodes /\ DeliverFinalize(n))

TypeOK ==
  /\ parentOf \in TreeShapes
  /\ \A n \in Nodes :
       /\ generalBest[n] \in 0..WorstFitness
       /\ commStatus[n] \in {1, ResidualStatus, FinalStatus}
       /\ childrenStatuses[n] \in {0, 1, ResidualStatus, FinalStatus}
       /\ signal[n] \in {0, MSG_FINALIZE}
       /\ pendingSendUp[n] \in 0..Len(chanChild2Parent[n])
       /\ pendingSendDown[n] \in 0..1
       /\ reqReadFinalize[n] \in {"NULL", "PENDING", "COMPLETE"}
       /\ iChild[n] \in 1..(nChildren(n) + 1)

\* --------------------------------------------------------------- claims
\* run() has returned on node n.
Returned(n) == pc[n] = "done"

\* The startup barrier has completed: the signal of every leaf has been
\* propagated up to the root, which has left the barrier.
BarrierCompleted == pc[rootNode] \notin {"ctor", "barrier"}

\* C1: in a tree of more than one node, no node performs a cost evaluation
\* until the startup barrier has completed.
C1_NoEvaluationBeforeBarrier ==
  getCurrentSize > 1 =>
    \A n \in Nodes : evaluated[n] => BarrierCompleted

\* C2: once run() has returned on the root, every non-root node has sent
\* exactly one package with status -2 to its parent, and the root has sent
\* exactly one FINALIZE signal to each of its children.
C2_OneFinalPackageOneFinalize ==
  Returned(rootNode) =>
    \A c \in NonRoot :
      /\ nFinalSent[c] = 1
      /\ parentOf[c] = rootNode => nFinalizeSent[c] = 1

\* The root of a tree of three nodes has returned.
C2_Witness == Returned(rootNode) /\ getCurrentSize = 3

\* C3: with a finite positive budget and in-order delivery, run()
\* eventually returns on every node.
C3_EventuallyAllReturn == <>(\A n \in Nodes : Returned(n))

\* C4: at termination the root's generalBest is at least as good as the
\* generalBest every leaf has reported with its last package.  A leaf's
\* generalBest no longer changes once that package is sent.
C4_RootAtLeastAsGoodAsLeaves ==
  Returned(rootNode) =>
    \A l \in Leaves :
      hasParent(l) => ~firstIsBetter(generalBest[l], generalBest[rootNode])

\* The root has returned with a result that none of its own evaluations
\* but a leaf's last package can have brought.
C4_Witness ==
  /\ Returned(rootNode)
  /\ getCurrentSize = 3
  /\ \E l \in Leaves : hasParent(l) /\ generalBest[l] = generalBest[rootNode]
  /\ \E l \in Leaves : hasParent(l) /\ generalBest[l] # generalBest[rootNode]

\* The parent of c is in the middle of the loop that drains c's channel.
Draining(c) ==
  /\ pc[parentOf[c]] \in {"childLoop", "resLoop"}
  /\ children(parentOf[c])[iChild[parentOf[c]]] = c

\* The status changes of a child, seen from its parent, that the claimed
\* order 0, +1, -1, -2 allows, and the ones that only move forward in it.
StrictOrder == {<<0, 1>>, <<1, ResidualStatus>>, <<ResidualStatus, FinalStatus>>}
ForwardOrder == StrictOrder \cup {<<1, FinalStatus>>}

\* C5 (as claimed): the status of a child, seen from its parent, passes
\* through 0, +1, -1, -2 in exactly that order.
C5_StatusStrictOrder ==
  [][\A c \in NonRoot :
       childrenStatuses'[c] # childrenStatuses[c] =>
         <<childrenStatuses[c], childrenStatuses'[c]>> \in StrictOrder]_vars

\* C5 (amended): the status of a child only moves forward in the order
\* 0, +1, -1, -2; it may pass from +1 to -2 directly, when the child's
\* package with status -1 was not sent.
C5_StatusForwardOrder ==
  [][\A c \in NonRoot :
       childrenStatuses'[c] # childrenStatuses[c] =>
         <<childrenStatuses[c], childrenStatuses'[c]>> \in ForwardOrder]_vars

\* The parent still records +1 for a child whose next package to be read
\* is its last one: the package with status -1 was never sent.
C5_Witness ==
  \E c \in NonRoot :
    /\ childrenStatuses[c] = 1
    /\ ~Draining(c)
    /\ chanChild2Parent[c] # <<>>
    /\ Head(chanChild2Parent[c]).st = FinalStatus

\* C6: when the parent has finished draining a child's channel, the triple
\* it keeps is the one with the largest send index among those received:
\* the triples are received in the order of their indices, so this is the
\* number of triples taken out of the channel.
C6_LastTripleKept ==
  \A c \in NonRoot :
    ~Draining(c) => Hh[c].idx = sendIdx[c] - Len(chanChild2Parent[c])

\* A drain has ended with the third triple of a child kept.
C6_Witness == \E c \in NonRoot : ~Draining(c) /\ Hh[c].idx = 3

\* C7: a node never writes to a send buffer (positions, fitness, status)
\* toward its parent or a child while a transfer that reads the buffer is
\* in flight.  The positions and fitness buffers are written right before
\* a new send, so that the send before it must have completed; commStatus
\* is also written on its own, and then no send issued before the write may
\* still be pending after it.
C7_NoWriteWhileInFlight ==
  [][\A c \in NonRoot :
       /\ (commStatus'[c] # commStatus[c] /\ sendIdx'[c] = sendIdx[c])
            => pendingSendUp'[c] = 0
       /\ pendingSendUp'[c] <= 1
       /\ pendingSendDown'[c] <= 1]_vars

\* C8: a node never issues a new send to a peer while its previous send to
\* the same peer in the same direction has not completed: at most one send
\* per link and direction is pending.
C8_OneSendInFlight ==
  \A c \in NonRoot : pendingSendUp[c] <= 1 /\ pendingSendDown[c] <= 1

\* A node has its second package to the parent in flight, and a parent a
\* send to a child.
C8_Witness ==
  /\ \E c \in NonRoot : pendingSendUp[c] = 1 /\ sendIdx[c] = 2
  /\ \E c \in NonRoot : pendingSendDown[c] = 1

\* The node has left the residual phase.
LeftResidual(n) ==
  pc[n] \in {"lastSend", "waitChildren", "finWait", "finSend", "finConfirm",
             "done", "aborted"}

\* C9: a node leaves the residual phase, and sends its package with status
\* -2, only after the last status it has recorded for every child is -2.
C9_LeavesAfterChildrenFinal ==
  \A n \in Nodes :
    (LeftResidual(n) \/ nFinalSent[n] > 0) =>
      \A c \in Nodes : parentOf[c] = n => childrenStatuses[c] = FinalStatus

\* An internal node below the root has sent its last package.
C9_Witness ==
  \E n \in NonRoot : hasChildren(n) /\ nFinalSent[n] = 1

\* Node c has taken the FINALIZE signal of its parent / the parent of c has
\* taken the confirmation of c.
TookFinalize(c) == nFinalizeSent[c] = 1 /\ chanFinalizeDown[c] = 0
TookConfirmation(c) == nConfirmSent[c] = 1 /\ chanFinalizeUp[c] = 0

\* C10: a non-root node sends FINALIZE to its children only after it has
\* received FINALIZE from its parent; an internal node sends its
\* confirmation only after it has received the confirmation of every
\* child; run() returns on the root only after every child has confirmed.
C10_FinalizeHandshakeOrder ==
  /\ \A c \in NonRoot :
       (hasParent(parentOf[c]) /\ nFinalizeSent[c] > 0)
         => TookFinalize(parentOf[c])
  /\ \A n \in Nodes :
       (hasChildren(n) /\ (nConfirmSent[n] > 0 \/ Returned(n)))
         => \A c \in Nodes : parentOf[c] = n => TookConfirmation(c)

\* The handshake has gone down and up a chain of three nodes.
C10_Witness ==
  /\ Returned(rootNode)
  /\ \E n \in NonRoot : hasChildren(n) /\ nConfirmSent[n] = 1

\* C11: a non-root node has sent a package with status -1 to its parent
\* before it sends its package with status -2.
C11_ResidualPackageBeforeFinal ==
  \A c \in NonRoot : nFinalSent[c] > 0 => nResidualSent[c] > 0

\* Node n, in its residual phase, takes over a report of the child it is
\* reading as its new generalBest.
ResidualImproves(n) ==
  /\ pc[n] \in {"resTest", "resLoop"}
  /\ generalBest'[n] # generalBest[n]

\* The other children of n that still receive sends (status not negative).
OtherActive(n) ==
  {j \in ActiveChildren(n) : j # children(n)[iChild[n]]}

\* C12 (as claimed): whenever a report improves generalBest in the residual
\* phase, the node sends the improved point to its parent and to every other
\* child that is still active.
C12_ResendsImprovement ==
  [][\A n \in Nodes :
       ResidualImproves(n) =>
         /\ hasParent(n) => sendIdx'[n] = sendIdx[n] + 1
         /\ \A j \in OtherActive(n) : pendingSendDown'[j] = 1]_vars

\* C12 (amended): the improved point is sent to the parent and to each other
\* active child whose previous send has completed; a peer whose previous
\* send is still pending is skipped.
C12_ResendsWhenSendCompleted ==
  [][\A n \in Nodes :
       ResidualImproves(n) =>
         /\ hasParent(n) =>
              \/ sendIdx'[n] = sendIdx[n] + 1
              \/ /\ pendingSendUp[n] = 1
                 /\ pendingSendUp'[n] = 1
                 /\ sendIdx'[n] = sendIdx[n]
         /\ \A j \in OtherActive(n) :
              pendingSendDown[j] = 0 => pendingSendDown'[j] = 1]_vars

\* An internal node below the root has sent its parent a second package
\* with status -1: the one of the entry of the residual phase and the
\* re-send of a child's improvement.
C12_Witness ==
  \E n \in NonRoot : hasChildren(n) /\ nResidualSent[n] = 2

\* C13: every child report a node uses has been refined by the local
\* refinement optimizer, in the residual phase as in the iteration body.
C13_ReportsAlwaysRefined ==
  \A n \in Nodes : lastReport[n] # "raw"

\* C14 (as claimed): in every iteration the node has tested the channel of
\* every child that is not shut down when the loop over the children ends.
C14_EveryChildDrained ==
  \A n \in Nodes : pc[n] = "exchange" => iChild[n] = nChildren(n) + 1

\* C14 (amended): the loop over the children ends when every child has been
\* gone through or when the population has no free slot left for a report.
C14_DrainedUntilPopulationFull ==
  \A n \in Nodes :
    pc[n] = "exchange" =>
      iChild[n] = nChildren(n) + 1 \/ popSeq[n] = PopulationSize

\* A node with two children has gone through both of them in one iteration.
C14_Witness ==
  \E n \in Nodes : pc[n] = "exchange" /\ nChildren(n) = 2 /\ iChild[n] = 3

\* C15 (as claimed): the upward send of iteration t is issued when a child
\* report has improved generalBest in iteration t and no earlier send is in
\* the way.  So at the end of the loop over the children, a node that has a
\* child's improvement of this iteration has sent to its parent before.
C15_SendsInSameIteration ==
  \A n \in NonRoot :
    (pc[n] = "exchange" /\ hasChildrenImproved[n]) => sendIdx[n] > 0

\* Node n takes the step of its search and upward send.
SearchStep(n) ==
  pc[n] = "search" /\ <<pc'[n], t'[n]>> # <<pc[n], t[n]>>

\* C15 (amended): in iteration t a non-root node issues the upward send,
\* with status +1, exactly when its previous send to the parent has
\* completed and either its own search has improved generalBest in
\* iteration t or a child report has improved it in iteration t - 1.
C15_SendAfterImprovement ==
  [][\A n \in NonRoot :
       SearchStep(n) =>
         LET wanted == generalBest'[n] # generalBest[n]
                         \/ hasChildrenImproved[n]
             sent == sendIdx'[n] = sendIdx[n] + 1
         IN /\ sent \/ sendIdx'[n] = sendIdx[n]
            /\ sent => /\ wanted
                       /\ chanChild2Parent'[n] # <<>>
                       /\ chanChild2Parent'[n][Len(chanChild2Parent'[n])].st
                            = 1
            /\ (wanted /\ pendingSendUp[n] = 0) => sent
            /\ (wanted /\ ~sent) => pendingSendUp'[n] = 1]_vars

\* An internal node below the root is in its second iteration and has
\* sent one package to its parent.
C15_Witness ==
  \E n \in NonRoot :
    /\ hasChildren(n)
    /\ t[n] = 2
    /\ pc[n] = "childTest"
    /\ sendIdx[n] = 1
    /\ commStatus[n] = 1

\* C16: generalBest never regresses: no step of a node leaves its
\* generalBest with a fitness worse than before.
C16_GeneralBestNeverRegresses ==
  [][\A n \in Nodes :
       ~firstIsBetter(generalBest[n], generalBest'[n])]_vars

\* A node whose generalBest was improved by a child report in the iteration
\* body is reading its children in the residual phase.
C16_Witness ==
  \E n \in Nodes :
    /\ hasChildrenImproved[n]
    /\ pc[n] = "resLoop"
    /\ generalBest[n] < WorstFitness

\* Node n has the startup signal of every child / the number of startup
\* signals node c has sent to its parent (in flight or received).
HasChildrenSignals(n) ==
  /\ pc[n] \notin {"ctor", "barrier"}
  /\ \A k \in Nodes :
       parentOf[k] = n => chanStartup[k] = 0 /\ childrenStatuses[k] # 0
StartupSent(c) ==
  chanStartup[c] + (IF pc[parentOf[c]] \in {"ctor", "barrier"} THEN 0 ELSE 1)

\* C17: in the startup barrier an internal non-root node sends exactly one
\* signal to its parent, and only after it has received the signal of every
\* child; the root proceeds only after it has received the signal of every
\* child.
C17_BarrierOrder ==
  /\ \A c \in NonRoot :
       /\ StartupSent(c) \in {0, 1}
       /\ pc[c] \notin {"ctor", "barrier"} => StartupSent(c) = 1
       /\ (hasChildren(c) /\ StartupSent(c) > 0) => HasChildrenSignals(c)
  /\ (getCurrentSize > 1 /\ BarrierCompleted) => HasChildrenSignals(rootNode)

\* The barrier has completed in a chain of three nodes.
C17_Witness ==
  /\ BarrierCompleted
  /\ \E n \in NonRoot : hasChildren(n) /\ StartupSent(n) = 1

\* ---------------------------------------------------------------------
\* The optimizers (HillClimbing, PSO) under their two callers: CSMOn::run
\* and the refinement of a child's report in the engine's body.  Fitness
\* values are left out: whether a sweep improves the best individual, and
\* how the decays and the alphas of CSMOn compare, depends on the fitness
\* function and is a free choice here; the evaluation counts, the stuck
\* flag and every loop condition are the code's.
\* ---------------------------------------------------------------------

Max(a, b) == IF a > b THEN a ELSE b

\* The values a cost evaluation of an optimizer can return.
Costs == 0..WorstFitness

\* The position startup() leaves in gb: it starts at the first individual
\* and moves to a later one only if that one is better.
BestPos(fits) ==
  CHOOSE i \in 1..Len(fits) :
    /\ \A j \in 1..Len(fits) : ~firstIsBetter(fits[j], fits[i])
    /\ \A j \in 1..(i - 1) : firstIsBetter(fits[i], fits[j])

\* Search::startup (HillClimbing lines 66-84, PSO lines 216-251): the
\* evaluation count and the stuck flag start again.
Startup(sr, popSize) ==
  LET fits == SubSeq(sr.fit, 1, popSize)
  IN  [sr EXCEPT !.p = popSize, !.nEvals = 0, !.stuck = FALSE,
                 !.found = FALSE, !.noImprove = 0, !.limit = 0,
                 !.fit = fits,
                 !.pBest = IF sr.kind = "PSO" THEN fits ELSE <<>>,
                 !.gb = BestPos(fits)]

\* Entry of next(M): found = false, noImprove = 0.
EnterNext(sr, M) ==
  [sr EXCEPT !.found = FALSE, !.noImprove = 0, !.limit = M]

\* The while condition of next(), the same in both optimizers.
NextGoesOn(sr) ==
  ~sr.found /\ sr.noImprove < MAX_NO_IMPROVE /\ sr.nEvals < sr.limit

\* Evaluations of one sweep of HillClimbing::next that forgets the limit.
HcSweepEvalsUnbounded(sr) == 0..(sr.p * sr.n)

\* Evaluations of one sweep of HillClimbing::next: both for loops stop at
\* nEvals = M, and a move is skipped when the random draw is above
\* percMove, so any number up to the smaller of p*n and what is left.
HcSweepEvals(sr) == 0..Min(sr.p * sr.n, sr.limit - sr.nEvals)

\* Evaluations of one sweep of PSO::next: every particle is evaluated, the
\* for loop has no test of nEvals.
PsoSweepEvals(sr) == {sr.p}

\* The individuals for which a sweep of HillClimbing::next with k
\* evaluations can accept a candidate: the candidate's cost is better than
\* the fitness of the individual.
HcAccepts(sr, k) ==
  {acc \in SUBSET (1..sr.p) :
     /\ Cardinality(acc) <= k
     /\ \A i \in acc : \E c \in Costs : firstIsBetter(c, sr.fit[i])}

\* HillClimbing::next from individual i on, acc being the individuals
\* with an accepted candidate: the accepted position is copied into the
\* individual, whose fitness is left as it was; found is set when such an
\* individual other than the best is better than the best.
RECURSIVE HcCompare(_, _, _)
HcCompare(sr, acc, i) ==
  IF i > sr.p THEN sr
  ELSE LET finds == /\ i \in acc
                    /\ i # sr.gb
                    /\ firstIsBetter(sr.fit[i], sr.fit[sr.gb])
       IN  HcCompare([sr EXCEPT !.found = sr.found \/ finds,
                                !.gb = IF finds THEN i ELSE sr.gb],
                     acc, i + 1)

\* The second for loop of PSO::next from particle i on: a particle that
\* is better than its personal best is overwritten with the personal best
\* (*population[i] = pBest[i]), and found is set when it then is better
\* than the best particle and is not the best particle.
RECURSIVE PsoCompare(_, _)
PsoCompare(sr, i) ==
  IF i > sr.p THEN sr
  ELSE LET better == firstIsBetter(sr.fit[i], sr.pBest[i])
           fit2 == IF better THEN [sr.fit EXCEPT ![i] = sr.pBest[i]]
                   ELSE sr.fit
           finds == /\ better
                    /\ i # sr.gb
                    /\ firstIsBetter(fit2[i], fit2[sr.gb])
       IN  PsoCompare([sr EXCEPT !.fit = fit2,
                                 !.found = sr.found \/ finds,
                                 !.gb = IF finds THEN i ELSE sr.gb],
                      i + 1)

\* A sweep that counts neither its evaluations nor its failure.
AfterSweepNoProgress(sr, k) == sr

\* The end of a sweep of k evaluations: if(!found) noImprove++.
AfterSweep(sr, k) ==
  [sr EXCEPT !.nEvals = sr.nEvals + k,
             !.noImprove = IF sr.found THEN sr.noImprove
                           ELSE sr.noImprove + 1]

\* Search::finalize: PSO overwrites the population with the personal
\* bests, HillClimbing does nothing.
Finalize(sr) ==
  IF sr.kind = "PSO" THEN [sr EXCEPT !.fit = sr.pBest] ELSE sr

\* next() that never reports the optimizer stuck.
AfterNextNeverStuck(sr) == sr

\* After the loop of next(): if(noImprove == MAX_NO_IMPROVE) stuck = true.
AfterNext(sr) ==
  [sr EXCEPT !.stuck = sr.stuck \/ sr.noImprove = MAX_NO_IMPROVE]

\* The for condition of CSMOn::getBest without the test of isStuck.
GetBestIgnoresStuck(c, sr) == c.want > 0 /\ sr.nEvals < c.M

\* The for condition of CSMOn::getBest (want = nBest - i).
GetBestGoesOn(c, sr) == c.want > 0 /\ sr.nEvals < c.M /\ ~sr.stuck

\* The condition both while loops of adjustExp and adjustLog and the do
\* loop of run() share.
MayGoOn(c, sr) == sr.nEvals < c.M /\ ~sr.stuck

\* A call getBest(search, nBest) that returns to the position ret.
CallGetBest(c, nBest, ret) ==
  [c EXCEPT !.pc = "getBest", !.want = nBest, !.ret = ret]

\* CSMOn::run up to its first call of getBest.
Run ==
  /\ csmon.use = "run"
  /\ csmon.pc \in {"idle", "done"}
  /\ search' = Startup(search, search.p)
  /\ csmon' = CallGetBest([csmon EXCEPT !.s = -1, !.pT = -1, !.pS = -1,
                                        !.gb = <<>>, !.nImproved = 0,
                                        !.relax = csmon.R0,
                                        !.rAboveR = TRUE],
                          1, "runLoop")
  /\ UNCHANGED <<thVars, libVars>>

\* The budget the engine hands to the local search of a child's report.
RefineBudget(B) == Max(B \div 100, 1)

\* The refinement of a child's report: setPopulation(&childBest, 1),
\* startup(), next(max(getBudgetSize()/100, 1)).
Refine ==
  /\ csmon.use = "refine"
  /\ csmon.pc \in {"idle", "refined"}
  /\ search' = EnterNext(Startup(search, 1), RefineBudget(csmon.M))
  /\ csmon' = [csmon EXCEPT !.pc = "next"]
  /\ UNCHANGED <<thVars, libVars>>

\* One turn of the for loop of getBest: call next(M), or return.
GetBestLoop ==
  /\ csmon.pc = "getBest"
  /\ IF GetBestGoesOn(csmon, search)
     THEN /\ search' = EnterNext(search, csmon.M)
          /\ csmon' = [csmon EXCEPT !.pc = "next"]
     ELSE /\ csmon' = [csmon EXCEPT !.pc = csmon.ret]
          /\ UNCHANGED search
  /\ UNCHANGED <<thVars, libVars>>

\* One sweep of HillClimbing::next.
HcSweep ==
  /\ csmon.pc = "next"
  /\ search.kind = "HillClimbing"
  /\ NextGoesOn(search)
  /\ \E k \in HcSweepEvals(search) :
       \E acc \in HcAccepts(search, k) :
         search' = AfterSweep(HcCompare(search, acc, 1), k)
  /\ UNCHANGED <<csmon, thVars, libVars>>

\* One sweep of PSO::next.
PsoSweep ==
  /\ csmon.pc = "next"
  /\ search.kind = "PSO"
  /\ NextGoesOn(search)
  /\ \E k \in PsoSweepEvals(search), costs \in [1..search.p -> Costs] :
       search' = AfterSweep(
                   PsoCompare([search EXCEPT
                                 !.fit = [i \in 1..search.p |-> costs[i]]],
                              1),
                   k)
  /\ UNCHANGED <<csmon, thVars, libVars>>

\* The return of next(): to getBest, which pushes the point and counts it
\* (s++, i++), or to the engine's body.
NextReturn ==
  /\ csmon.pc = "next"
  /\ ~NextGoesOn(search)
  /\ search' = AfterNext(search)
  /\ csmon' = IF csmon.use = "run"
              THEN [csmon EXCEPT
                      !.pc = "getBest", !.s = csmon.s + 1,
                      !.want = csmon.want - 1,
                      !.gb = Append(csmon.gb, search.fit[search.gb]),
                      !.nImproved = IF search.found /\ csmon.s >= 0
                                    THEN csmon.nImproved + 1
                                    ELSE csmon.nImproved]
              ELSE [csmon EXCEPT !.pc = "refined"]
  /\ UNCHANGED <<thVars, libVars>>

\* The head of the do loop of run(): r = max(r*r, R), then adjustExp up to
\* its call of getBest, or adjustLog, or the end of the turn.
RunLoop ==
  /\ csmon.pc = "runLoop"
  /\ LET c == [csmon EXCEPT !.relax = Max(csmon.relax - 1, 0),
                            !.rAboveR = csmon.relax > 0]
     IN  csmon' = IF c.pS = -1
                  THEN CallGetBest([c EXCEPT !.sPrev = c.s], 2, "expCheck")
                  ELSE [c EXCEPT !.pc = "afterExp"]
  /\ UNCHANGED <<search, thVars, libVars>>

\* adjustExp after getBest(search, 2): if(s-sPrev < 2) return -1.
ExpCheck ==
  /\ csmon.pc = "expCheck"
  /\ csmon' = IF csmon.s - csmon.sPrev < 2
              THEN [csmon EXCEPT !.pc = "afterExp", !.pT = -1]
              ELSE [csmon EXCEPT !.pc = "expLoop", !.pB = -1]
  /\ UNCHANGED <<search, thVars, libVars>>

\* One turn of the while loop of adjustExp; decays tells whether both
\* decays are below r, falling whether alpha2 < alpha1.
ExpLoop ==
  /\ csmon.pc = "expLoop"
  /\ IF MayGoOn(csmon, search)
     THEN \E decays \in BOOLEAN, falling \in BOOLEAN :
            csmon' =
              IF decays /\ csmon.pB # -1 /\ falling
              THEN [csmon EXCEPT !.pc = "afterExp", !.pT = csmon.s]
              ELSE CallGetBest(
                     [csmon EXCEPT !.pB = IF ~decays THEN -1
                                          ELSE IF csmon.pB = -1
                                               THEN csmon.s - 2
                                               ELSE csmon.pB],
                     1, "expLoop")
     ELSE csmon' = [csmon EXCEPT !.pc = "afterExp", !.pT = -1]
  /\ UNCHANGED <<search, thVars, libVars>>

\* run() after adjustExp: if(pT > 0) pS = adjustLog(...), up to the call
\* of getBest(search, 3).
AfterExp ==
  /\ csmon.pc = "afterExp"
  /\ csmon' = IF csmon.pT > 0
              THEN CallGetBest([csmon EXCEPT !.sPrev = csmon.s], 3,
                               "logCheck")
              ELSE [csmon EXCEPT !.pc = "loopEnd"]
  /\ UNCHANGED <<search, thVars, libVars>>

\* adjustLog after getBest(search, 3): if(s-sPrev < 3) return -1.
LogCheck ==
  /\ csmon.pc = "logCheck"
  /\ csmon' = IF csmon.s - csmon.sPrev < 3
              THEN [csmon EXCEPT !.pc = "loopEnd", !.pS = -1]
              ELSE [csmon EXCEPT !.pc = "logLoop"]
  /\ UNCHANGED <<search, thVars, libVars>>

\* One turn of the while loop of adjustLog; rising tells whether
\* alpha2 >= alpha1, decays whether both decays are below r.
LogLoop ==
  /\ csmon.pc = "logLoop"
  /\ \E rising \in BOOLEAN, decays \in BOOLEAN :
       csmon' =
         IF rising /\ MayGoOn(csmon, search)
         THEN IF ~decays
              THEN [csmon EXCEPT !.pc = "loopEnd", !.pS = -1]
              ELSE CallGetBest(csmon, 1, "logLoop")
         ELSE [csmon EXCEPT !.pc = "loopEnd", !.pS = csmon.s]
  /\ UNCHANGED <<search, thVars, libVars>>

\* The condition of the do loop of run(), then search->finalize().
LoopEnd ==
  /\ csmon.pc = "loopEnd"
  /\ IF MayGoOn(csmon, search) /\ (csmon.rAboveR \/ csmon.pS = -1)
     THEN /\ csmon' = [csmon EXCEPT !.pc = "runLoop"]
          /\ UNCHANGED search
     ELSE /\ csmon' = [csmon EXCEPT !.pc = "done"]
          /\ search' = Finalize(search)
  /\ UNCHANGED <<thVars, libVars>>

SearchKinds == {"HillClimbing", "PSO"}

\* The budgets of a CSMOn that monitors a run, and of one whose budget
\* only sizes the refinements.
RunBudgets == 1..MaxM
RefineBudgets == {50 * b : b \in 1..MaxHalfHundreds}

\* An engine of one node, and an optimizer and a convergence controller
\* as their constructors leave them, for every input in the bounds.
CsmonInit ==
  /\ InitEngine({<<0>>})
  /\ Idle("optimizer")
  /\ \E kind \in SearchKinds, popSize \in 1..MaxP, nDims \in 1..MaxN :
       \E fits \in [1..popSize -> Costs] :
         search = NewSearch(kind, popSize, nDims,
                            [i \in 1..popSize |-> fits[i]])
  /\ \/ \E M \in RunBudgets, R0 \in 0..MaxR : csmon = NewCsmon("run", M, R0)
     \/ \E B \in RefineBudgets : csmon = NewCsmon("refine", B, 0)

CsmonNext ==
  \/ Run
  \/ Refine
  \/ GetBestLoop
  \/ HcSweep
  \/ PsoSweep
  \/ NextReturn
  \/ RunLoop
  \/ ExpCheck
  \/ ExpLoop
  \/ AfterExp
  \/ LogCheck
  \/ LogLoop
  \/ LoopEnd

CsmonSpec == CsmonInit /\ [][CsmonNext]_vars

CsmonTypeOK ==
  /\ search.kind \in SearchKinds
  /\ search.p \in 1..MaxP /\ search.n \in 1..MaxN
  /\ search.nEvals \in 0..(MaxM + MaxP) /\ search.noImprove \in 0..MAX_NO_IMPROVE
  /\ csmon.s \in -1..MaxM
  /\ csmon.want \in 0..3
  /\ csmon.pT \in -1..MaxM /\ csmon.pS \in -1..MaxM /\ csmon.pB \in -1..MaxM

\* ---------------------------------------------------------------------
\* Claims about the optimizers, checked under CsmonSpec.
\* ---------------------------------------------------------------------

\* C18 as stated: a refinement of a child's report, once it has returned,
\* has consumed exactly max(B/100, 1) evaluations.
C18_RefinementUsesExactBudget ==
  (csmon.use = "refine" /\ csmon.pc = "refined")
    => search.nEvals = RefineBudget(csmon.M)

\* C18 amended: a refinement consumes at most max(B/100, 1) evaluations,
\* and one that has returned with fewer has given up after MAX_NO_IMPROVE
\* sweeps without improvement (the optimizer is stuck).
C18_RefinementWithinBudget ==
  csmon.use = "refine" =>
    /\ search.nEvals <= RefineBudget(csmon.M)
    /\ (csmon.pc = "refined" /\ search.nEvals < RefineBudget(csmon.M))
         => search.stuck

\* A refinement with a budget of at least two evaluations has returned
\* after some evaluations, but fewer than its budget.
C18_Witness ==
  /\ csmon.use = "refine" /\ csmon.pc = "refined"
  /\ RefineBudget(csmon.M) >= 2
  /\ search.nEvals >= 1 /\ search.nEvals < RefineBudget(csmon.M)

\* C19: during one CSMOn::run with budget M the evaluation count of the
\* optimizer since startup() never exceeds M.
C19_EvaluationsWithinBudget ==
  csmon.use = "run" => search.nEvals <= csmon.M

\* C20: within one CSMOn::run, next() is never called once the evaluation
\* count has reached M or once the optimizer is stuck.
C20_NoNextAfterBudgetOrStuck ==
  [][(csmon.use = "run" /\ csmon.pc # "next" /\ csmon'.pc = "next")
       => (search.nEvals < csmon.M /\ ~search.stuck)]_vars

\* getBest still has points to fetch within the budget, but the optimizer
\* is stuck: the loop stops without calling next().
C20_Witness ==
  /\ csmon.use = "run" /\ csmon.pc = "getBest"
  /\ csmon.want > 0 /\ search.nEvals < csmon.M /\ search.stuck

\* C21: the history recorded by one CSMOn::run is monotone non-increasing
\* in fitness: gb[i].y <= gb[i-1].y for every recorded index i > 0.
C21_HistoryNonIncreasing ==
  csmon.use = "run" =>
    \A i \in 2..Len(csmon.gb) : csmon.gb[i] <= csmon.gb[i - 1]

\* C22 as stated: once the initial pull has been recorded, the number of
\* recorded points equals the number of later calls of next() that
\* returned an improvement of the best, plus one for the initial pull.
C22_PointsAreImprovements ==
  (csmon.use = "run" /\ Len(csmon.gb) >= 1)
    => Len(csmon.gb) = csmon.nImproved + 1

\* C22 amended: the number of recorded points equals the number of calls
\* of next() that have returned (s + 1); every call but the initial pull
\* and the last one returned an improvement of the best, and a later call
\* that returned none has exhausted the budget or left the optimizer
\* stuck, so that no further point is recorded.
C22_PointsAreReturnedCalls ==
  csmon.use = "run" =>
    /\ Len(csmon.gb) = csmon.s + 1
    /\ Len(csmon.gb) >= 1 =>
         /\ Len(csmon.gb) \in {csmon.nImproved + 1, csmon.nImproved + 2}
         /\ (Len(csmon.gb) = csmon.nImproved + 2 /\ csmon.pc # "next")
              => ~MayGoOn(csmon, search)

\* A run has recorded the initial pull, an improvement, and the point of
\* a last call that returned without improvement.
C22_Witness ==
  /\ csmon.use = "run" /\ csmon.pc = "done"
  /\ csmon.nImproved >= 1
  /\ Len(csmon.gb) = csmon.nImproved + 2

\* ---------------------------------------------------------------------
\* The best-list of one node: the update policy (Convergent) as the
\* engine applies it in the constructor and in every iteration, and the
\* selection policy (RandomBestList).  A solution has one dimension.
\* ---------------------------------------------------------------------

Solutions == {Solution(x, f) : x \in 0..MaxX, f \in Fitnesses}

\* FitnessPolicy::firstIsBetter on two solutions.
SolutionIsBetter(first, second) == firstIsBetter(first.fit, second.fit)

\* BestListUpdatePolicy::euclideanDistance: the sum over the dimensions of
\* the squared difference, without a square root.
euclideanDistance(first, second) ==
  (second.x - first.x) * (second.x - first.x)

\* The for loop of ConvergentBestListUpdatePolicy::apply from slot i on:
\* the first empty slot wins at once; otherwise the slot, among those
\* solution is better than, whose solution is farthest.  0 stands for -1.
RECURSIVE FindWorst(_, _, _, _, _)
FindWorst(list, solution, i, worst, largestDistance) ==
  IF i > Len(list) THEN worst
  ELSE IF list[i] = NULL THEN i
  ELSE IF /\ SolutionIsBetter(solution, list[i])
          /\ euclideanDistance(solution, list[i]) > largestDistance
       THEN FindWorst(list, solution, i + 1, i,
                      euclideanDistance(solution, list[i]))
       ELSE FindWorst(list, solution, i + 1, worst, largestDistance)

\* ConvergentBestListUpdatePolicy::apply: a copy of solution is written
\* into the slot found, if any.
ConvergentApply(list, solution) ==
  LET worst == FindWorst(list, solution, 1, 0, -1)
  IN  IF worst > 0 THEN [list EXCEPT ![worst] = solution] ELSE list

\* The second loop of RandomBestListSelectionPolicy::apply: the first
\* solution available, NULL when the loop runs off the list.
FirstAvailable(list) ==
  IF \A i \in 1..Len(list) : list[i] = NULL THEN NULL
  ELSE list[CHOOSE i \in 1..Len(list) :
              list[i] # NULL /\ \A j \in 1..(i - 1) : list[j] = NULL]

\* RandomBestListSelectionPolicy::apply with the random position pos
\* (counted from 1): the solution it returns.
RandomSelect(list, pos) ==
  IF list[pos] # NULL THEN list[pos] ELSE FirstAvailable(list)

\* The only throw of RandomBestListSelectionPolicy::apply: no best-list,
\* or a best-list of size 0.
SelectThrows(list) == Len(list) = 0

\* The update of generalBest after a candidate.
BetterOf(candidate, best) ==
  IF SolutionIsBetter(candidate, best) THEN candidate ELSE best

notGroup ==
  <<thVars, optVars, selection, region, thTree, builder, results, access, relocation, population>>
notSelection ==
  <<thVars, optVars, group, region, thTree, builder, results, access, relocation, population>>

\* SearchGroup::SearchGroup: the root puts its bias into the best-list.
GroupCtor ==
  /\ group.pc = "ctor"
  /\ group' = [group EXCEPT
                 !.pc = "reset",
                 !.bestList = IF group.isRoot /\ group.bias # NULL
                              THEN ConvergentApply(group.bestList, group.bias)
                              ELSE group.bestList]
  /\ UNCHANGED notGroup

\* SearchGroup::resetPopulation: best is the best individual of the new
\* population, which holds the bias on the root; generalBest is updated
\* and put into the best-list.
ResetPopulation ==
  /\ group.pc = "reset"
  /\ \E best \in Solutions :
       /\ (group.isRoot /\ group.bias # NULL)
            => ~SolutionIsBetter(group.bias, best)
       /\ LET gb == BetterOf(best, group.generalBest)
          IN  group' = [group EXCEPT
                          !.pc = "firstSelect",
                          !.iterationBest = best,
                          !.generalBest = gb,
                          !.bestList = ConvergentApply(group.bestList, gb)]
  /\ UNCHANGED notGroup

\* THImpl::run before its loop: selectedFromBestList is initialised from
\* the best-list.
FirstSelect ==
  /\ group.pc = "firstSelect"
  /\ \E pos \in 1..Len(group.bestList) :
       group' = [group EXCEPT
                   !.pc = "run",
                   !.selected = RandomSelect(group.bestList, pos)]
  /\ UNCHANGED notGroup

\* SearchGroup::run: best is the best individual the optimizer hands
\* back; it becomes iterationBest and is put into the best-list.
GroupRun ==
  /\ group.pc = "run"
  /\ \E best \in Solutions :
       group' = [group EXCEPT
                   !.pc = "children",
                   !.popSeq = 1,
                   !.iterationBest = best,
                   !.bestList = ConvergentApply(group.bestList, best),
                   !.generalBest = BetterOf(best, group.generalBest)]
  /\ UNCHANGED notGroup

\* The refinement of one child's report (childBest) in the loop over the
\* children.
ChildRefined ==
  /\ group.pc = "children"
  /\ group.hasKids
  /\ group.popSeq < PopulationSize
  /\ \E childBest \in Solutions :
       group' = [group EXCEPT
                   !.popSeq = group.popSeq + 1,
                   !.generalBest = BetterOf(childBest, group.generalBest),
                   !.bestList = ConvergentApply(group.bestList, childBest)]
  /\ UNCHANGED notGroup

\* After the loop over the children: the selection of the solution to
\* send down, on a node with children.
DownwardSelect ==
  /\ group.pc = "children"
  /\ \E pos \in 1..Len(group.bestList) :
       group' = [group EXCEPT
                   !.pc = "iterEnd",
                   !.selected = IF group.hasKids
                                THEN RandomSelect(group.bestList, pos)
                                ELSE group.selected]
  /\ UNCHANGED notGroup

\* The end of an iteration of THImpl::run.
GroupIterationEnd ==
  /\ group.pc = "iterEnd"
  /\ group' = IF group.t < MaxIterations
              THEN [group EXCEPT !.pc = "run", !.t = group.t + 1]
              ELSE [group EXCEPT !.pc = "done"]
  /\ UNCHANGED notGroup

GroupInit ==
  /\ InitEngine({<<0>>})
  /\ Idle("group")
  /\ \E listSize \in 1..MaxL, root \in BOOLEAN, hasKids \in BOOLEAN,
        bias \in Solutions \cup {NULL} :
       group = NewGroup(listSize, root, bias, hasKids)

GroupNext ==
  \/ GroupCtor
  \/ ResetPopulation
  \/ FirstSelect
  \/ GroupRun
  \/ ChildRefined
  \/ DownwardSelect
  \/ GroupIterationEnd

GroupSpec == GroupInit /\ [][GroupNext]_vars

\* Every best-list a BestList object can hold: the constructor refuses a
\* size of 0 or less.
BestLists ==
  UNION {[1..listSize -> Solutions \cup {NULL}] : listSize \in 1..MaxL}

\* One call of RandomBestListSelectionPolicy::apply.
SelectCall ==
  /\ selection.pc = "call"
  /\ \E pos \in 1..Len(selection.bestList) :
       selection' =
         IF SelectThrows(selection.bestList)
         THEN [selection EXCEPT !.pc = "thrown", !.error = TRUE]
         ELSE [selection EXCEPT
                 !.pc = "returned", !.pos = pos,
                 !.selected = RandomSelect(selection.bestList, pos)]
  /\ UNCHANGED notSelection

SelectInit ==
  /\ InitEngine({<<0>>})
  /\ Idle("selection")
  /\ \E list \in BestLists :
       selection = NewSelection([i \in 1..Len(list) |-> list[i]])

SelectNext == SelectCall

SelectSpec == SelectInit /\ [][SelectNext]_vars

\* C23: under the convergent update policy, at the end of every iteration
\* at most one slot of the best-list holds a solution equal to the current
\* iterationBest.
C23_OneSlotEqualsIterationBest ==
  group.pc = "iterEnd" =>
    Cardinality({i \in 1..Len(group.bestList) :
                   group.bestList[i] = group.iterationBest}) <= 1

\* C24: the selection fails with an error if and only if every slot of
\* the best-list is empty, and returns the solution of an occupied slot
\* whenever one is occupied.
C24_FailsIffAllEmpty ==
  selection.pc # "call" =>
    LET occupied == {i \in 1..Len(selection.bestList) :
                       selection.bestList[i] # NULL}
    IN  /\ selection.error <=> occupied = {}
        /\ occupied # {} =>
             \E i \in occupied : selection.selected = selection.bestList[i]

\* ---------------------------------------------------------------------
\* The region partitioner GroupRegionSelectionPolicy::apply as a function
\* of the search space, the locked tree and the node id.  Points are
\* counted in units of 1/K^(MaxTreeNodes-1), so that every division by K
\* along a path of the tree is exact.
\* ---------------------------------------------------------------------

RECURSIVE Pow(_, _)
Pow(b, e) == IF e = 0 THEN 1 ELSE b * Pow(b, e - 1)

\* The number of units in 1.
Units(K) == Pow(K, MaxTreeNodes - 1)

\* The 7-node balanced binary tree of the example (runTH).
BinaryTree7 == <<0, 1, 1, 2, 2, 3, 3>>

\* Every tree addRootNode and addNode can build with up to MaxTreeNodes
\* nodes added in the order of their ids, and the tree of the example.
RegionTrees ==
  UNION {{tr \in [1..size -> 0..(size - 1)] :
            tr[1] = 0 /\ \A i \in 2..size : tr[i] \in 1..(i - 1)}
         : size \in 1..MaxTreeNodes}
    \cup {BinaryTree7}

\* node->getChildren() of node n: its children in the order they were
\* added.
RECURSIVE ChildrenFrom(_, _, _)
ChildrenFrom(tree, n, i) ==
  IF i > Len(tree) THEN <<>>
  ELSE (IF tree[i] = n THEN <<i>> ELSE <<>>) \o ChildrenFrom(tree, n, i + 1)

getChildren(tree, n) == ChildrenFrom(tree, n, 1)

\* The hierarchy apply() builds: the node, then its ancestors up to, and
\* without, the root.
RECURSIVE HierarchyFrom(_, _)
HierarchyFrom(tree, parent) ==
  IF parent = 0 \/ tree[parent] = 0 THEN <<>>
  ELSE <<parent>> \o HierarchyFrom(tree, tree[parent])

Hierarchy(tree, ID) == <<ID>> \o HierarchyFrom(tree, tree[ID])

\* The coordinates of the child at position childPos (from 0) in the
\* grouping of the dimensions, for the groups g down to 0: pos is what is
\* left of the position; a base above it leaves the coordinate at 0.
RECURSIVE CoordFrom(_, _, _)
CoordFrom(pos, g, K) ==
  IF g < 0 THEN <<>>
  ELSE LET base == Pow(K, g)
       IN  IF base <= pos
           THEN CoordFrom(pos % base, g - 1, K) \o <<pos \div base>>
           ELSE CoordFrom(pos, g - 1, K) \o <<0>>

\* coord[g] is Coord(...)[g + 1].
Coord(childPos, nGroups, K) == CoordFrom(childPos, nGroups - 1, K)

\* The width of one segment of a partition cut as a whole.
SegmentWidthWhole(partition, K) == partition.end - partition.start

\* delta: the width of one of the K segments of a partition.
SegmentWidth(partition, K) == (partition.end - partition.start) \div K

\* The partition of one dimension cut at the coordinate c: the last
\* segment (c = K-1) and every coordinate that is not below K-1 keep the
\* end point of the partition.
Segment(partition, c, K) ==
  LET delta == SegmentWidth(partition, K)
      minimum == partition.start + c * delta
  IN  [start |-> minimum,
       end |-> IF c < K - 1 THEN minimum + delta ELSE partition.end]

\* The for loop over the dimensions from dimension d (from 0) with the
\* group g.  junk is the value read from coord[g] when g has run past the
\* last group; stays tells that (d+1) % dimPerGroup with dimPerGroup = 0
\* did not move g (where it does not trap).
RECURSIVE SubRegionFrom(_, _, _, _, _, _, _)
SubRegionFrom(parts, coord, d, g, nGroups, K, junk) ==
  IF d >= Len(parts) THEN <<>>
  ELSE LET dimPerGroup == Len(parts) \div nGroups
           c == IF g < nGroups THEN coord[g + 1] ELSE junk
           g2 == IF dimPerGroup # 0 /\ (d + 1) % dimPerGroup = 0
                 THEN g + 1 ELSE g
       IN  <<Segment(parts[d + 1], c, K)>>
             \o SubRegionFrom(parts, coord, d + 1, g2, nGroups, K, junk)

\* internalLoop: the region of node ID, reached from node with the region
\* parts; hierarchy holds the ancestry still to walk, its top last.  NULL
\* (no region) is <<>>.
RECURSIVE internalLoop(_, _, _, _, _, _, _, _)
internalLoop(parts, hierarchy, tree, node, ID, nGroups, K, junk) ==
  IF node = ID THEN parts
  ELSE LET kids == getChildren(tree, node)
           top == hierarchy[Len(hierarchy)]
           hits == {childPos \in 1..Len(kids) : kids[childPos] = top}
       IN  IF hits = {} THEN <<>>
           ELSE LET childPos == CHOOSE cp \in hits : TRUE
                    coord == Coord(childPos - 1, nGroups, K)
                    subRegion == SubRegionFrom(parts, coord, 0, 0, nGroups,
                                               K, junk)
                IN  internalLoop(subRegion,
                                 SubSeq(hierarchy, 1, Len(hierarchy) - 1),
                                 tree, kids[childPos], ID, nGroups, K,
                                 junk)

\* The node ID is not the root and the number of dimensions is below the
\* number of groups: dimPerGroup is 0 and (d+1) % dimPerGroup divides by
\* zero.
DividesByZero(r) ==
  r.tree[r.ID] # 0 /\ Len(r.dims) \div r.nGroups = 0

\* The values an int read past the end of coord[] may hold.
JunkCoords(K) == -1..K

notRegion ==
  <<thVars, optVars, group, selection, thTree, builder, results, access, relocation, population>>

\* One call of GroupRegionSelectionPolicy::apply.  A division by zero
\* either traps or leaves the group where it is.
RegionApply ==
  /\ region.pc = "call"
  /\ \/ /\ DividesByZero(region)
        /\ region' = [region EXCEPT !.pc = "done", !.status = "trapped"]
     \/ \E junk \in JunkCoords(region.K) :
          LET parts == internalLoop(region.dims,
                                    Hierarchy(region.tree, region.ID),
                                    region.tree, 1, region.ID,
                                    region.nGroups, region.K, junk)
          IN  region' = [region EXCEPT
                           !.pc = "done",
                           !.status = IF parts = <<>> THEN "null"
                                      ELSE "region",
                           !.parts = parts]
  /\ UNCHANGED notRegion

\* The intervals of a dimension of the search space, in whole numbers.
DimensionIntervals == {<<-20, 20>>, <<0, 1>>}

RegionInit ==
  /\ InitEngine({<<0>>})
  /\ Idle("region")
  /\ \E tree \in RegionTrees, nGroups \in 1..MaxGroups, K \in 1..MaxK,
        nDims \in 1..MaxN, iv \in DimensionIntervals :
       \E ID \in 1..Len(tree) :
         region = NewRegionCall(
                    [i \in 1..Len(tree) |-> tree[i]], ID, nGroups, K,
                    [d \in 1..nDims |-> [start |-> iv[1] * Units(K),
                                         end |-> iv[2] * Units(K)]])

RegionNext == RegionApply

RegionSpec == RegionInit /\ [][RegionNext]_vars

\* C25: each Partition of the Region returned by the partitioner is an
\* interval with start <= end that is contained in the interval of its
\* Dimension.
C25_PartitionsInsideDimensions ==
  (region.pc = "done" /\ region.status = "region") =>
    \A d \in 1..Len(region.parts) :
      /\ region.parts[d].start <= region.parts[d].end
      /\ region.dims[d].start <= region.parts[d].start
      /\ region.parts[d].end <= region.dims[d].end

\* The position (from 0) of node n among the children of its parent.
ChildIndex(tree, n) == Cardinality({k \in 1..(n - 1) : tree[k] = tree[n]})

\* On the path from the root to the node ID, a node is a child whose
\* index does not fit the K^nGroups grid of its parent.
Misfit(r) ==
  \E k \in 1..Len(Hierarchy(r.tree, r.ID)) :
    LET n == Hierarchy(r.tree, r.ID)[k]
    IN  r.tree[n] # 0 /\ ChildIndex(r.tree, n) >= Pow(r.K, r.nGroups)

\* C26: the partitioner fails with an InvalidTopology error whenever the
\* path from the root to the requested node goes through a child whose
\* index does not fit the K^nGroups grid.
C26_MisfitFails ==
  (region.pc = "done" /\ Misfit(region)) => region.status = "InvalidTopology"

\* The call of the example: the 7-node balanced binary tree, one of its
\* leaves, GroupRegionSelection(1, 2) and dimensions [-20, 20].
ExampleLeafCall ==
  /\ region.pc = "done"
  /\ region.tree = BinaryTree7 /\ region.ID \in 4..7
  /\ region.nGroups = 1 /\ region.K = 2
  /\ \A d \in 1..Len(region.dims) :
       region.dims[d] = [start |-> -20 * Units(2), end |-> 20 * Units(2)]

\* C27 as stated: in the call of the example every leaf's anchor has
\* width 5 in every dimension.
C27_LeafWidthFive ==
  ExampleLeafCall =>
    /\ region.status = "region"
    /\ \A d \in 1..Len(region.parts) :
         region.parts[d].end - region.parts[d].start = 5 * Units(2)

\* C27 amended: in the call of the example every leaf's anchor has width
\* 10 in every dimension: the leaves (in the order of their ids) get
\* [-20, -10], [-10, 0], [0, 10] and [10, 20].
C27_LeafWidthTen ==
  ExampleLeafCall =>
    /\ region.status = "region"
    /\ \A d \in 1..Len(region.parts) :
         /\ region.parts[d].start = (-20 + 10 * (region.ID - 4)) * Units(2)
         /\ region.parts[d].end = (-10 + 10 * (region.ID - 4)) * Units(2)

\* The anchor of the last leaf of the example has been computed for a
\* search space of two dimensions.
C27_Witness ==
  ExampleLeafCall /\ region.ID = 7 /\ Len(region.parts) = 2

\* C28: with the default GroupRegionSelection(1, 1), for every tree shape
\* the anchor of every node equals the full search space.
C28_DefaultIsFullSpace ==
  (region.pc = "done" /\ region.nGroups = 1 /\ region.K = 1) =>
    region.status = "region" /\ region.parts = region.dims

\* ---------------------------------------------------------------------
\* THTree: the topology object, built node by node and then locked.
\* ---------------------------------------------------------------------

notTree ==
  <<thVars, optVars, group, selection, region, builder, results, access, relocation, population>>

\* std::map::insert: an id that is already in the map keeps its node.
mapInsert(nodeMap, ID, slot) ==
  IF nodeMap[ID] # 0 THEN nodeMap ELSE [nodeMap EXCEPT ![ID] = slot]

\* A call that throws leaves the tree as it was.
Thrown(tr, what) == [tr EXCEPT !.thrown = what]

\* pack that sets the level of the node alone.
packRootOnly(parent, level, node, L) == [level EXCEPT ![node] = L]

\* pack: the node gets level L, its children are packed with L - 1.
RECURSIVE pack(_, _, _, _), packChildren(_, _, _, _)
pack(parent, level, node, L) ==
  packChildren(parent, [level EXCEPT ![node] = L],
               getChildren(parent, node), L - 1)

packChildren(parent, level, kids, L) ==
  IF kids = <<>> THEN level
  ELSE packChildren(parent, pack(parent, level, Head(kids), L), Tail(kids), L)

addRootNode ==
  /\ thTree.pc = "live"
  /\ \E ID \in TreeIDs :
       thTree' =
         IF thTree.locked THEN Thrown(thTree, "locked")
         ELSE IF thTree.root # 0 THEN Thrown(thTree, "root exists")
         ELSE [thTree EXCEPT !.LRoot = 1, !.root = 1, !.parent = <<0>>,
                             !.id = <<ID>>, !.level = <<1>>,
                             !.nodeMap = mapInsert(thTree.nodeMap, ID, 1),
                             !.currSize = 1, !.thrown = "none"]
  /\ UNCHANGED notTree

addNode ==
  /\ thTree.pc = "live"
  /\ \E ID \in TreeIDs, parentID \in TreeIDs :
       thTree' =
         IF thTree.locked THEN Thrown(thTree, "locked")
         ELSE IF thTree.currSize >= thTree.limitSize
           THEN Thrown(thTree, "limit size")
         ELSE IF thTree.nodeMap[parentID] = 0
           THEN Thrown(thTree, "out_of_range")
         ELSE LET par == thTree.nodeMap[parentID]
                  lvl == thTree.level[par] + 1
              IN  [thTree EXCEPT
                     !.parent = Append(@, par), !.id = Append(@, ID),
                     !.level = Append(@, lvl),
                     !.LRoot = IF lvl > @ THEN lvl ELSE @,
                     !.nodeMap = mapInsert(@, ID, thTree.currSize + 1),
                     !.currSize = @ + 1, !.thrown = "none"]
  /\ UNCHANGED notTree

\* Without a root node lock() reads the level through a null pointer.
lock ==
  /\ thTree.pc = "live"
  /\ thTree' =
       IF thTree.root = 0
         THEN [thTree EXCEPT !.locked = TRUE, !.pc = "trapped"]
       ELSE IF thTree.level[thTree.root] # thTree.LRoot
         THEN [thTree EXCEPT
                 !.locked = TRUE, !.thrown = "none",
                 !.level = pack(thTree.parent, @, thTree.root, thTree.LRoot)]
       ELSE [thTree EXCEPT !.locked = TRUE, !.thrown = "none"]
  /\ UNCHANGED notTree

TreeInit ==
  /\ InitEngine({<<0>>})
  /\ Idle("tree")
  /\ \E limitSize \in 1..MaxTreeNodes : thTree = NewTree(limitSize)

TreeNext == addRootNode \/ addNode \/ lock

TreeSpec == TreeInit /\ [][TreeNext]_vars

\* The number of nodes on the path from the root to the node.
RECURSIVE Depth(_, _)
Depth(parent, node) ==
  IF parent[node] = 0 THEN 1 ELSE 1 + Depth(parent, parent[node])

MaxDepth(tr) ==
  CHOOSE m \in 1..MaxTreeNodes :
    /\ \E n \in 1..tr.currSize : Depth(tr.parent, n) = m
    /\ \A n \in 1..tr.currSize : Depth(tr.parent, n) <= m

TreeLeaves(tr) == {n \in 1..tr.currSize : getChildren(tr.parent, n) = <<>>}

TreeLocked == thTree.pc = "live" /\ thTree.locked

\* C29 as stated: after lock() the root's level equals the maximum depth
\* of the tree, every leaf has level 1 and every child's level equals its
\* parent's level minus 1.
C29_LeavesAtLevelOne ==
  TreeLocked =>
    /\ thTree.level[thTree.root] = MaxDepth(thTree)
    /\ \A n \in TreeLeaves(thTree) : thTree.level[n] = 1
    /\ \A n \in 2..thTree.currSize :
         thTree.level[n] = thTree.level[thTree.parent[n]] - 1

\* C29 amended: after lock() the root's level equals the maximum depth of
\* the tree, every child's level equals its parent's level minus 1, and
\* the level of a leaf is the maximum depth minus its own depth plus 1:
\* at least 1, and 1 exactly for the leaves at the maximum depth.
C29_LevelsCountDownFromRoot ==
  TreeLocked =>
    /\ thTree.level[thTree.root] = MaxDepth(thTree)
    /\ \A n \in 2..thTree.currSize :
         thTree.level[n] = thTree.level[thTree.parent[n]] - 1
    /\ \A n \in TreeLeaves(thTree) :
         /\ thTree.level[n] = MaxDepth(thTree) - Depth(thTree.parent, n) + 1
         /\ thTree.level[n] >= 1
         /\ thTree.level[n] = 1 <=> Depth(thTree.parent, n) = MaxDepth(thTree)

\* A locked tree of four nodes with a leaf above the deepest level.
C29_Witness ==
  /\ TreeLocked
  /\ thTree.currSize = 4
  /\ \E n \in TreeLeaves(thTree) : thTree.level[n] = 2
  /\ \E n \in TreeLeaves(thTree) : thTree.level[n] = 1

\* ---------------------------------------------------------------------
\* THBuilder: the configuration object and build().  The region selector
\* and the best-list size are left at their defaults.
\* ---------------------------------------------------------------------

notBuilder ==
  <<thVars, optVars, group, selection, region, thTree, results, access, relocation, population>>

\* The trees a caller can hand over: no tree, a THTree without root node,
\* a tree that has no node with the id of this process, a tree that has.
BuilderTrees == {"NULL", "rootless", "foreign", "ok"}

Budgets == -1..1

\* The preferred population sizes of the optimizers a caller registers.
PreferredSizes == 0..1

\* A setter returns to the caller: what build() said is no longer the
\* outcome of the last call.
Configured(cfg) == [cfg EXCEPT !.outcome = "none"]

BuilderLive == builder.outcome # "trapped"

setTHTree ==
  /\ BuilderLive
  /\ \E tr \in BuilderTrees :
       builder' = IF tr # "NULL" THEN Configured([builder EXCEPT !.thTree = tr])
                  ELSE Configured(builder)
  /\ UNCHANGED notBuilder

setSearchSpace ==
  /\ BuilderLive
  /\ \E given \in BOOLEAN :
       builder' = IF given THEN Configured([builder EXCEPT !.searchSpace = TRUE])
                  ELSE Configured(builder)
  /\ UNCHANGED notBuilder

setFitnessPolicy ==
  /\ BuilderLive
  /\ \E given \in BOOLEAN :
       builder' = IF given
                    THEN Configured([builder EXCEPT !.fitnessPolicy = TRUE])
                  ELSE Configured(builder)
  /\ UNCHANGED notBuilder

\* setMpiComm throws on a NULL communicator, else it creates the grid.
setMpiComm ==
  /\ BuilderLive
  /\ \E given \in BOOLEAN :
       builder' = IF given THEN Configured([builder EXCEPT !.cartGrid = TRUE])
                  ELSE Configured(builder)
  /\ UNCHANGED notBuilder

setMaxNumberEvaluations ==
  /\ BuilderLive
  /\ \E v \in Budgets :
       builder' = Configured([builder EXCEPT !.maxNumberEvaluations = v])
  /\ UNCHANGED notBuilder

setMaxTimeSeconds ==
  /\ BuilderLive
  /\ \E v \in Budgets :
       builder' = Configured([builder EXCEPT !.maxTimeSeconds = v])
  /\ UNCHANGED notBuilder

setMaxIterations ==
  /\ BuilderLive
  /\ \E v \in Budgets :
       builder' = Configured([builder EXCEPT !.maxIterations = v])
  /\ UNCHANGED notBuilder

\* A NULL optimizer is not registered.
addSearchAlgorithm ==
  /\ BuilderLive
  /\ Len(builder.searchAlgorithms) < MaxAlgorithms
  /\ \E given \in BOOLEAN, size \in PreferredSizes :
       builder' = IF given
                    THEN Configured([builder EXCEPT
                                       !.searchAlgorithms = Append(@, size)])
                  ELSE Configured(builder)
  /\ UNCHANGED notBuilder

\* The largest preferred population size of the registered optimizers.
RECURSIVE getMaxPopulationSize(_)
getMaxPopulationSize(algorithms) ==
  IF algorithms = <<>> THEN 0
  ELSE Max(Head(algorithms), getMaxPopulationSize(Tail(algorithms)))

\* The SearchGroup constructor: what it throws, "none" when it returns.
SearchGroupCtor(cfg) ==
  IF Len(cfg.searchAlgorithms) = 0 THEN "search algorithm"
  ELSE IF getMaxPopulationSize(cfg.searchAlgorithms) <= 0
    THEN "population size"
  ELSE "none"

\* The THImpl constructor: what it throws ("none" when it returns), in
\* the order of its statements; "trapped" is the read through the null
\* root pointer in lock().
THImplCtor(cfg) ==
  IF cfg.thTree = "NULL" THEN "tree"
  ELSE IF ~cfg.searchSpace THEN "search space"
  ELSE IF ~cfg.fitnessPolicy THEN "fitness policy"
  ELSE IF ~cfg.cartGrid THEN "cart grid"
  ELSE IF /\ cfg.maxIterations = 0 /\ cfg.maxNumberEvaluations = 0
          /\ cfg.maxTimeSeconds = 0
    THEN "budget"
  ELSE IF cfg.thTree = "rootless" THEN "trapped"
  ELSE IF cfg.thTree = "foreign" THEN "out_of_range"
  ELSE SearchGroupCtor(cfg)

build ==
  /\ BuilderLive
  /\ builder' =
       IF builder.built THEN [builder EXCEPT !.outcome = "already built"]
       ELSE IF THImplCtor(builder) = "none"
         THEN [builder EXCEPT !.built = TRUE, !.th = TRUE,
                              !.outcome = "engine"]
       ELSE [builder EXCEPT !.built = TRUE, !.outcome = THImplCtor(builder)]
  /\ UNCHANGED notBuilder

BuilderInit ==
  /\ InitEngine({<<0>>})
  /\ Idle("builder")
  /\ builder = NewBuilder

BuilderNext ==
  \/ setTHTree \/ setSearchSpace \/ setFitnessPolicy \/ setMpiComm
  \/ setMaxNumberEvaluations \/ setMaxTimeSeconds \/ setMaxIterations
  \/ addSearchAlgorithm \/ build

BuilderSpec == BuilderInit /\ [][BuilderNext]_vars

\* What build() can throw.
BuildErrors ==
  {"already built", "tree", "search space", "fitness policy", "cart grid",
   "budget", "out_of_range", "search algorithm", "population size"}

\* The configuration misses a tree, a search space, a fitness policy, a
\* transport, a budget cap, or an optimizer.
Incomplete(cfg) ==
  \/ cfg.thTree = "NULL" \/ ~cfg.searchSpace \/ ~cfg.fitnessPolicy
  \/ ~cfg.cartGrid
  \/ /\ cfg.maxIterations = 0 /\ cfg.maxNumberEvaluations = 0
     /\ cfg.maxTimeSeconds = 0
  \/ Len(cfg.searchAlgorithms) = 0

\* C30: build() fails with an error, and returns no engine, when the
\* configuration has no tree, no search space, no fitness policy, no
\* transport, every budget cap equal to zero, or no registered optimizer.
C30_IncompleteBuildFails ==
  (builder.outcome # "none" /\ Incomplete(builder)) =>
    builder.outcome \in BuildErrors

\* With a tree that has a root node the build of an incomplete
\* configuration throws, and it hands out no engine.
RootedBuildFailsFast ==
  (builder.outcome # "none" /\ Incomplete(builder)
     /\ builder.thTree # "rootless") =>
    builder.outcome \in BuildErrors

\* The errors build() reports for a configuration that is not complete.
ConfigurationErrors ==
  {"tree", "search space", "fitness policy", "cart grid", "budget",
   "search algorithm", "population size"}

\* C38: a build() call that fails with a configuration error does not
\* consume the builder: the builder is not marked as built, and a later
\* build() call is rejected as a second build only when an earlier call
\* has handed out an engine.
C38_FailedBuildKeepsBuilder ==
  /\ builder.outcome \in ConfigurationErrors => ~builder.built
  /\ builder.outcome = "already built" => builder.th

\* The anchor the partitioner computes for node n in the call r, where a
\* coordinate read past the end of coord[] holds junk.
Anchor(r, n, junk) ==
  internalLoop(r.dims, Hierarchy(r.tree, n), r.tree, 1, n, r.nGroups, r.K,
               junk)

\* Box a lies in box b.
SubBox(a, b) ==
  \A d \in 1..Len(a) :
    a[d].start <= a[d].end /\ b[d].start <= a[d].start /\ a[d].end <= b[d].end

\* The interiors of the boxes a and b have no point in common.
InteriorDisjoint(a, b) ==
  \E d \in 1..Len(a) :
    \/ a[d].end <= b[d].start \/ b[d].end <= a[d].start
    \/ a[d].start >= a[d].end \/ b[d].start >= b[d].end

\* C40: for a node with at most K^nGroups children, the anchors the
\* partitioner computes for its children are pairwise interior-disjoint
\* sub-boxes, each contained in the node's own anchor.
C40_ChildrenTileTheAnchor ==
  (/\ region.pc = "done" /\ region.status = "region"
   /\ region.tree[region.ID] # 0
   /\ Len(getChildren(region.tree, region.tree[region.ID]))
        <= Pow(region.K, region.nGroups)) =>
    \A junk \in JunkCoords(region.K) :
      LET node == region.tree[region.ID]
          kids == getChildren(region.tree, node)
      IN  /\ SubBox(region.parts, Anchor(region, node, junk))
          /\ \A k \in 1..Len(kids) :
               kids[k] # region.ID =>
                 InteriorDisjoint(region.parts, Anchor(region, kids[k], junk))

\* The budgets of the runs followed to their end: the smallest, and the
\* largest, which lets every loop of CSMOn iterate.
FairRunBudgets == {1, MaxM}

CsmonFairInit ==
  CsmonInit /\ (csmon.use = "run" => csmon.M \in FairRunBudgets)

\* CSMOn::run is sequential code: while a step is left it is taken.
CsmonFairSpec ==
  CsmonFairInit /\ [][CsmonNext]_vars /\ WF_vars(CsmonNext)

\* C39: CSMOn.run terminates when every next(M) call performs at least
\* one evaluation or sets isStuck: from every point of a run, the outer
\* relaxation loop and the loops of adjustExp and adjustLog are left and
\* run() returns.
C39_RunTerminates ==
  (csmon.use = "run" /\ csmon.pc # "done") ~> (csmon.pc = "done")

\* A run has returned after the loops have pulled at least four points
\* and the budget is spent.
C39_Witness ==
  /\ csmon.use = "run" /\ csmon.pc = "done"
  /\ Len(csmon.gb) >= 4
  /\ search.nEvals >= csmon.M

\* ---------------------------------------------------------------------
\* The results of an engine: getBestSolution and getBestList.
\* ---------------------------------------------------------------------

notResults ==
  <<thVars, optVars, group, selection, region, thTree, builder, access,
    relocation, population>>

\* run() returns: executed = true.
RunReturns ==
  /\ ~results.executed
  /\ results' = [results EXCEPT !.executed = TRUE]
  /\ UNCHANGED notResults

\* What a getter hands out: a copy is made only while the engine holds
\* none, and the engine keeps the pointer it returns.
HandOut(rs, copy, call) ==
  LET makes == rs.executed /\ rs[copy] = 0
      obj == IF makes THEN rs.heap + 1 ELSE rs[copy]
  IN  [rs EXCEPT ![copy] = obj,
                 !.heap = IF makes THEN rs.heap + 1 ELSE rs.heap,
                 !.returned = Append(@, [call |-> call, obj |-> obj,
                                         executed |-> rs.executed])]

getBestSolution ==
  /\ Len(results.returned) < MaxCalls
  /\ results' = HandOut(results, "generalBestCopy", "getBestSolution")
  /\ UNCHANGED notResults

getBestList ==
  /\ Len(results.returned) < MaxCalls
  /\ results' = HandOut(results, "bestListCopy", "getBestList")
  /\ UNCHANGED notResults

\* The caller frees a copy it was handed, as the getters ask it to.
CallerDeletes ==
  /\ \E i \in 1..Len(results.returned) :
       /\ results.returned[i].obj # 0
       /\ results.returned[i].obj \notin results.deleted
       /\ results' = [results EXCEPT
                        !.deleted = @ \cup {results.returned[i].obj}]
  /\ UNCHANGED notResults

ResultsInit ==
  /\ InitEngine({<<0>>})
  /\ Idle("results")
  /\ results = NewResults

ResultsNext == RunReturns \/ getBestSolution \/ getBestList \/ CallerDeletes

ResultsSpec == ResultsInit /\ [][ResultsNext]_vars

\* C31: every call to getBestSolution or getBestList made after run() has
\* completed returns a newly allocated copy: an object that is not part
\* of the engine's state and not the object any earlier call returned.
C31_EveryCallReturnsNewCopy ==
  \A i \in 1..Len(results.returned) :
    results.returned[i].executed =>
      /\ results.returned[i].obj \notin {0, 1, 2}
      /\ \A j \in 1..(i - 1) :
           results.returned[j].obj # results.returned[i].obj

\* ---------------------------------------------------------------------
\* BestList::operator[] and BestList::set.
\* ---------------------------------------------------------------------

notAccess ==
  <<thVars, optVars, group, selection, region, thTree, builder, results,
    relocation, population>>

\* The test both accessors make on the index.
IndexRejected(idx, listSize) == idx < 0 \/ idx > listSize

\* One call of an accessor.  The index listSize passes the test and names
\* the element after the last one of the array: a read returns whatever
\* lies there, a write deletes it when it is not NULL (which may stop the
\* process) and stores the solution outside the list.
BestListAccess ==
  /\ access.pc = "call"
  /\ LET listSize == Len(access.bestList)
         done == [access EXCEPT !.pc = "done"]
     IN  IF IndexRejected(access.idx, listSize)
           THEN access' = [done EXCEPT !.outcome = "invalid_argument"]
         ELSE IF access.op = "set" /\ access.solution = NULL
           THEN access' = [done EXCEPT !.outcome = "invalid_argument"]
         ELSE IF access.idx = listSize
           THEN \/ \E junk \in Solutions \cup {NULL} :
                     access' = [done EXCEPT !.outcome = "out of bounds",
                                            !.value = junk]
                \/ /\ access.op = "set"
                   /\ access' = [done EXCEPT !.outcome = "trapped"]
         ELSE IF access.op = "read"
           THEN access' = [done EXCEPT
                             !.outcome = "returned",
                             !.value = access.bestList[access.idx + 1]]
         ELSE access' = [done EXCEPT
                           !.outcome = "stored",
                           !.bestList[access.idx + 1] = access.solution]
  /\ UNCHANGED notAccess

AccessInit ==
  /\ InitEngine({<<0>>})
  /\ Idle("access")
  /\ \E list \in BestLists, op \in {"read", "set"} :
       \E idx \in -1..(Len(list) + 1), solution \in Solutions \cup {NULL} :
         /\ op = "read" => solution = NULL
         /\ access = NewAccess([i \in 1..Len(list) |-> list[i]], op, idx,
                               solution)

AccessNext == BestListAccess

AccessSpec == AccessInit /\ [][AccessNext]_vars

\* C33: reading or writing a BestList of size L with an index outside
\* 0..L-1 fails with an invalid-argument error.
C33_OutsideIndexRejected ==
  (access.pc = "done" /\ access.idx \notin 0..(Len(access.bestList) - 1)) =>
    access.outcome = "invalid_argument"

\* ---------------------------------------------------------------------
\* BetaRelocationStrategyPolicy: the displacement rate of Iterative
\* Partitioning.  K and maxK are counted in units of 1/KUnit.
\* ---------------------------------------------------------------------

notRelocation ==
  <<thVars, optVars, group, selection, region, thTree, builder, results,
    access, population>>

\* The values of MAX_K(step, 1, 'E') = min(1 / exp(12 * step), 1) for the
\* steps 0 and ln(2)/12.
MaxKAtStep == {KUnit, KUnit \div 2}

\* 1 - currGb/prevGb < 5e-5 in floating point: 0/0 is not a number and
\* compares false, a positive value over 0 is infinite.
Stalled(currGb, prevGb) ==
  IF prevGb = 0 THEN currGb # 0
  ELSE (prevGb - currGb) * 100000 < 5 * prevGb

\* getPrevBestFitness: the previous best fitness is overwritten with
\* bestFit, and the value of that assignment is what is returned.
getPrevBestFitness(rl, bestFit) ==
  [value |-> IF rl.firstPass THEN 0 + bestFit ELSE bestFit,
   policy |-> [rl EXCEPT !.firstPass = FALSE, !.prevBestFitness = bestFit]]

\* getAttraction; maxKStep is MAX_K(step, boostInc, boostType).  A K that
\* has run down to nothing sends the function through itself once more,
\* where K <= 0 sets it to MAX_K(0.0).
getAttraction(rl, maxKStep, currGb, prevGb) ==
  IF rl.K <= 0 THEN [rl EXCEPT !.K = KUnit, !.maxK = KUnit]
  ELSE IF Stalled(currGb, prevGb)
    THEN LET low == rl.K <= rl.maxK \div rl.maxTries
             last == rl.nTries + 1 = rl.maxTries
             maxK2 == IF ~low THEN rl.maxK
                      ELSE IF last THEN KUnit ELSE maxKStep
             K2 == IF low THEN maxK2 ELSE rl.K - rl.maxK \div rl.maxTries
             after == [rl EXCEPT
                         !.nTries = IF ~low THEN @
                                    ELSE IF last THEN 0 ELSE @ + 1,
                         !.maxK = maxK2, !.K = K2]
         IN  IF K2 <= 0 THEN [after EXCEPT !.K = KUnit, !.maxK = KUnit]
             ELSE after
  ELSE [rl EXCEPT !.nTries = 0]

setIPDisplacementType ==
  /\ relocation' = [relocation EXCEPT !.diplacementType = "I",
                                      !.maxTries = IPMaxTries,
                                      !.applied = FALSE]
  /\ UNCHANGED notRelocation

setLinearDisplacementType ==
  /\ relocation' = [relocation EXCEPT !.diplacementType = "L",
                                      !.applied = FALSE]
  /\ UNCHANGED notRelocation

\* apply up to the displacement rate, for a general best of fitness
\* bestFit, which is never worse than at the relocation before.
RelocationApply ==
  /\ \E bestFit \in Costs, maxKStep \in MaxKAtStep :
       /\ relocation.currGb # -1 => bestFit <= relocation.currGb
       /\ LET prev == getPrevBestFitness(relocation, bestFit)
              rl == IF relocation.diplacementType = "L" THEN relocation
                    ELSE getAttraction(prev.policy, maxKStep, bestFit,
                                       prev.value)
          IN  relocation' = [rl EXCEPT !.prevGb = relocation.currGb,
                                       !.currGb = bestFit,
                                       !.before = relocation.K,
                                       !.applied = TRUE]
  /\ UNCHANGED notRelocation

RelocationInit ==
  /\ InitEngine({<<0>>})
  /\ Idle("relocation")
  /\ relocation = NewRelocation

RelocationNext ==
  setIPDisplacementType \/ setLinearDisplacementType \/ RelocationApply

RelocationSpec == RelocationInit /\ [][RelocationNext]_vars

\* The general best has improved by a relative amount of at least 5e-5
\* between the relocation before and this one.
HealthyImprovement(rl) ==
  /\ rl.prevGb > 0
  /\ (rl.prevGb - rl.currGb) * 100000 >= 5 * rl.prevGb

\* C32: in Iterative Partitioning mode, when the general-best fitness has
\* improved by a relative amount of at least 5e-5 since the previous
\* relocation and K > 0, the relocation clears the stall counter and
\* leaves K unchanged.
C32_HealthyKeepsK ==
  (/\ relocation.applied /\ relocation.diplacementType = "I"
   /\ HealthyImprovement(relocation) /\ relocation.before > 0) =>
    relocation.nTries = 0 /\ relocation.K = relocation.before
\* ------------------------------------------------------------------
\* The status of a child as its parent records it, after the barrier
\* (THBuilder.h:1196-1215, 1337, 1373, 1380, 1654, 1681, 1688).

\* The parent of c has left the startup barrier.
PastBarrier(c) == pc[parentOf[c]] \notin {"ctor", "barrier"}

\* A receive for child c is posted or matched in the step: the handle
\* becomes pending, or a package leaves the channel of c.
ReceivePosted(c) ==
  \/ reqReadHhFromChildren'[c] = "PENDING" /\ reqReadHhFromChildren[c] # "PENDING"
  \/ Len(chanChild2Parent'[c]) < Len(chanChild2Parent[c])

\* One step of the program, seen from the record a parent keeps of c.
StatusStep(c) ==
  /\ childrenStatuses'[c] <= childrenStatuses[c]
  /\ childrenStatuses[c] = FinalStatus =>
       /\ childrenStatuses'[c] = FinalStatus
       /\ ~ReceivePosted(c)

\* C34: after the startup barrier the status a parent records for a child
\* never increases; once it is -2 it never changes again, no receive is
\* pending for that child and the parent posts no further receive for it.
C34_StatusNeverIncreases ==
  /\ [](\A c \in NonRoot :
          (PastBarrier(c) /\ childrenStatuses[c] = FinalStatus) =>
            reqReadHhFromChildren[c] # "PENDING")
  /\ [][\A c \in NonRoot : PastBarrier(c) => StatusStep(c)]_vars

\* A parent has recorded -2 for one child and goes on exchanging with
\* another child that is still active.
C34_Witness ==
  \E c \in NonRoot, d \in NonRoot :
    /\ c # d /\ parentOf[c] = parentOf[d]
    /\ childrenStatuses[c] = FinalStatus
    /\ childrenStatuses[d] = 1
    /\ pc[parentOf[c]] \in {"childTest", "childLoop", "resTest", "resLoop"}
\* C35: every completion test or wait on a send handle refers to a send
\* that the node has issued to that peer: a node that reaches the shutdown
\* wait on the sends to its children has issued a send to each of them.
C35_WaitsOnIssuedSends ==
  \A n \in Nodes : pc[n] = "waitChildren" => NeverSentTo(n) = {}
\* A receive that node n has posted is not matched yet: the receive of the
\* FINALIZE signal (line 1841), the receive of the parent's solution
\* (lines 1587, 1827) or the receive of a child's triple (lines 1382, 1690).
HasPendingReceive(n) ==
  \/ reqReadFinalize[n] = "PENDING"
  \/ reqReadHHbFromParent[n] = "PENDING"
  \/ \E c \in Nodes : parentOf[c] = n /\ reqReadHhFromChildren[c] = "PENDING"

\* A send that node n has issued is not complete yet: the triple to its
\* parent or the solution to one of its children.
HasIncompleteSend(n) ==
  \/ hasParent(n) /\ pendingSendUp[n] > 0
  \/ \E c \in Nodes : parentOf[c] = n /\ pendingSendDown[c] > 0

\* C36: when run() has returned on a node, no receive posted by that node
\* is still pending and no send issued by it is still incomplete; in
\* particular no receive of the FINALIZE signal and no receive of the
\* parent's data stays posted.
C36_NothingOpenAtReturn ==
  \A n \in Nodes :
    Returned(n) => ~HasPendingReceive(n) /\ ~HasIncompleteSend(n)
\* ---------------------------------------------------------------------
\* The population of one node without children through the iterations of
\* THImpl::run, with HillClimbing as the optimizer (THBuilder.h:880-887,
\* 904-920, 960-996, 1331, 1521-1555; part_001:66-84, 93-124).
\* ---------------------------------------------------------------------

notPopulation ==
  <<thVars, optVars, group, selection, region, thTree, builder, results,
    access, relocation>>

\* The cost functions a fitness policy can compute on the positions.
CostFunctions == [0..MaxX -> Fitnesses]

\* FitnessPolicy::apply: the fitness of the solution becomes the cost at
\* its position.
FitnessApply(cost, solution) == Solution(solution.x, cost[solution.x])

\* The fitness a solution stores is the cost at its position.
Consistent(cost, solution) == solution.fit = cost[solution.x]

\* The fitnesses stored in a population.
StoredFits(members) == [i \in 1..Len(members) |-> members[i].fit]

\* The individuals that an iteration leaves in place: popSeq = 1 at the
\* head of the iteration body (line 1331), so the first one.
KeptIndividuals == 1

\* The evaluations of one call of next() explored.
MaxMoves == 2

\* THImpl::THImpl: the constructor of SearchGroup evaluates the bias and
\* puts it into the best-list; resetPopulation puts the bias first (root
\* with a bias), resets the others and evaluates every individual, then
\* updates iterationBest, generalBest and the best-list.
PopulationCtor ==
  /\ population.pc = "ctor"
  /\ \E xs \in [1..PopulationSize -> 0..MaxX] :
       LET cost == population.cost
           bias == IF population.bias = NULL THEN NULL
                   ELSE FitnessApply(cost, population.bias)
           list1 == IF bias # NULL
                      THEN ConvergentApply(population.bestList, bias)
                      ELSE population.bestList
           members == [i \in 1..PopulationSize |->
                         IF bias # NULL /\ i = 1 THEN bias
                         ELSE FitnessApply(cost, Solution(xs[i], 0))]
           best == members[BestPos(StoredFits(members))]
           gBest == BetterOf(best, population.generalBest)
       IN  population' = [population EXCEPT
                            !.pc = "run", !.bias = bias,
                            !.member = members, !.iterationBest = best,
                            !.generalBest = gBest,
                            !.bestList = ConvergentApply(list1, gBest)]
  /\ UNCHANGED notPopulation

\* SearchGroup::run hands the population to the optimizer (setPopulation),
\* whose startup() looks for the best individual by the stored fitness.
PopulationStartup ==
  /\ population.pc = "run"
  /\ population' = [population EXCEPT
                      !.pc = "next", !.handed = population.member,
                      !.nEvals = 0,
                      !.gb = BestPos(StoredFits(population.member))]
  /\ UNCHANGED notPopulation

\* One move of HillClimbing::next on individual i: the candidate is a copy
\* of the individual moved to x and evaluated; if it is better, its
\* position is written into the individual (*(*population[i])[d] =
\* candidate[d]), whose fitness is left as it was; gb follows the stored
\* fitness.
HillClimbingMove ==
  /\ population.pc = "next"
  /\ population.nEvals < MaxMoves
  /\ \E i \in 1..PopulationSize, x \in 0..MaxX :
       LET candidate == FitnessApply(population.cost, Solution(x, 0))
           accepted == SolutionIsBetter(candidate, population.member[i])
           moved == Solution(x, population.member[i].fit)
           finds == /\ accepted /\ i # population.gb
                    /\ SolutionIsBetter(moved,
                                        population.member[population.gb])
       IN  population' = [population EXCEPT
                            !.nEvals = @ + 1,
                            !.member = IF accepted
                                       THEN [@ EXCEPT ![i] = moved] ELSE @,
                            !.gb = IF finds THEN i ELSE @]
  /\ UNCHANGED notPopulation

\* The end of SearchGroup::run: iterationBest is the best individual of
\* the optimizer; it goes to the best-list and is compared with
\* generalBest.
SearchGroupRunEnd ==
  /\ population.pc = "next"
  /\ LET best == population.member[population.gb]
     IN  population' = [population EXCEPT
                          !.pc = "relocate",
                          !.iterationBest = best,
                          !.compared = best,
                          !.bestList = ConvergentApply(@, best),
                          !.generalBest = BetterOf(best, @)]
  /\ UNCHANGED notPopulation

\* The end of an iteration of THImpl::run on a node without children
\* (lines 1521-1555): with a bias the individual at popSeq is reset around
\* it and popSeq moves on; if another iteration follows, the individuals
\* from popSeq on are relocated and evaluated.
Relocate ==
  /\ population.pc = "relocate"
  /\ \E xs \in [1..PopulationSize -> 0..MaxX] :
       LET biased == population.bias # NULL /\ KeptIndividuals < PopulationSize
           popSeq1 == IF biased THEN KeptIndividuals + 1 ELSE KeptIndividuals
           runNextIteration == population.t < MaxIterations
           members == [i \in 1..PopulationSize |->
                         IF biased /\ i = popSeq1
                           THEN Solution(xs[i], population.member[i].fit)
                         ELSE IF runNextIteration /\ i > popSeq1
                           THEN FitnessApply(population.cost,
                                             Solution(xs[i], 0))
                         ELSE population.member[i]]
       IN  population' = [population EXCEPT
                            !.pc = IF runNextIteration THEN "run" ELSE "done",
                            !.member = members,
                            !.t = @ + 1]
  /\ UNCHANGED notPopulation

PopulationInit ==
  /\ InitEngine({<<0>>})
  /\ Idle("population")
  /\ \E cost \in CostFunctions, listSize \in 1..2,
        bias \in {Solution(x, WorstFitness) : x \in 0..MaxX} \cup {NULL} :
       population = NewPopulation(cost, bias, listSize)

PopulationNext ==
  \/ PopulationCtor
  \/ PopulationStartup
  \/ HillClimbingMove
  \/ SearchGroupRunEnd
  \/ Relocate

PopulationSpec == PopulationInit /\ [][PopulationNext]_vars

\* C37: whenever a population is handed to an optimizer's startup(), and
\* whenever a solution is compared with generalBest or stored in the
\* best-list, the fitness stored in that solution is the cost at the
\* solution's current position.
C37_StoredFitnessIsCost ==
  /\ \A i \in 1..Len(population.handed) :
       Consistent(population.cost, population.handed[i])
  /\ population.compared # NULL =>
       Consistent(population.cost, population.compared)
  /\ \A i \in 1..Len(population.bestList) :
       population.bestList[i] # NULL =>
         Consistent(population.cost, population.bestList[i])

====
